---- MODULE Spec2Model ----
(***************************************************************************)
(* Natural-language ffmpeg: the directive parser (app/parser/parser.ts)    *)
(* and the filter-graph compiler (ffmpegCompiler.tsx).                     *)
(*                                                                         *)
(* A JavaScript string is a sequence of one-character strings, so that the *)
(* tokenizer, the regular expressions of the command patterns and the      *)
(* number conversions are computed character by character.                 *)
(***************************************************************************)
EXTENDS Integers, Sequences, FiniteSets, TLC

VARIABLES
    input,              \* the directive text handed to parser()
    fileInfo,           \* the media descriptor handed to ToFfmpeg
    pc,                 \* position of the pipeline
    words,              \* parser: code.match(pattern)
    i,                  \* parser: loop cursor (0-based, as in the source)
    chain,              \* parser: next `if` block of the loop body (0 = comment check)
    commands,           \* parser: commands
    errors,             \* parser: errors
    parsedCommands,     \* parser: parsedCommands
    lastResult,         \* parser: Result of the last processCommand call
    passes,             \* parser: passes of the loop body completed (i++ reached)
    optimizedCommands,  \* compiler: optimizeCrops(commands, fileInfo)
    k,                  \* compiler: forEach index into optimizedCommands
    processedCommands,  \* compiler: processedCommands
    videoFilters,       \* compiler: videoFilters
    audioFilters,       \* compiler: audioFilters
    output,             \* compiler: what translateToFfmpeg returns
    events,             \* editor: input events handled so far
    fileSelectorType,   \* editor: fileSelectorType
    previous,           \* the results of the run before the last input event
    page,               \* Parser page: its module-level commands, errors, parsedCommands
    pending,            \* editor: the handleFileSelect call waiting for probeFile, if any
    tokens,             \* highlighter: tokenize(code)
    ffmpeg,             \* ffmpeg.js, ffprobe.js: `let ffmpeg` of each module
    calls               \* the calls of loadFFmpeg made so far

vars == <<input, fileInfo, pc, words, i, chain, commands, errors, parsedCommands,
          lastResult, optimizedCommands, k, processedCommands, videoFilters,
          audioFilters, output, events, fileSelectorType, previous, page, passes,
          pending, tokens, ffmpeg, calls>>

parserVars == <<words, i, chain, commands, errors, parsedCommands, lastResult, passes>>
compilerVars == <<optimizedCommands, k, processedCommands, videoFilters,
                  audioFilters, output>>
toolVars == <<tokens, ffmpeg, calls>>
sessionVars == <<events, fileSelectorType, previous, page, pending, tokens, ffmpeg, calls>>

----------------------------------------------------------------------------
(* Characters and JavaScript string primitives                             *)

Digits == {"0", "1", "2", "3", "4", "5", "6", "7", "8", "9"}

DigitVal(c) ==
    CASE c = "0" -> 0 [] c = "1" -> 1 [] c = "2" -> 2 [] c = "3" -> 3
      [] c = "4" -> 4 [] c = "5" -> 5 [] c = "6" -> 6 [] c = "7" -> 7
      [] c = "8" -> 8 [] c = "9" -> 9

\* \s of a JavaScript regular expression, restricted to the characters used
WhiteSpace == {" ", "\n", "\t", "\r"}

\* The value parseInt and Number give for text that is not a number
NaN == "NaN"


AllDigits(s) == \A p \in 1..Len(s) : s[p] \in Digits

\* s.startsWith(sub) at 1-based position p
MatchAt(s, p, sub) ==
    /\ p >= 1
    /\ p + Len(sub) - 1 <= Len(s)
    /\ \A q \in 1..Len(sub) : s[p + q - 1] = sub[q]

\* s.includes(sub): an unanchored literal regular expression
Contains(s, sub) == \E p \in 1..(Len(s) + 1) : MatchAt(s, p, sub)

EndsWith(s, sub) == MatchAt(s, Len(s) - Len(sub) + 1, sub)

\* s.indexOf(sub) as a 1-based position, 0 when absent
IndexOf(s, sub) ==
    IF Contains(s, sub)
    THEN CHOOSE p \in 1..(Len(s) + 1) :
            /\ MatchAt(s, p, sub)
            /\ \A q \in 1..(p - 1) : ~MatchAt(s, q, sub)
    ELSE 0

\* s.replace(sub, rep) with a string pattern: the first occurrence only
ReplaceFirst(s, sub, rep) ==
    LET p == IndexOf(s, sub)
    IN  IF p = 0 THEN s
        ELSE SubSeq(s, 1, p - 1) \o rep \o SubSeq(s, p + Len(sub), Len(s))

\* s.replace(/c/g, ""): every occurrence of one character removed
RECURSIVE RemoveAll(_, _)
RemoveAll(s, c) ==
    IF s = <<>> THEN <<>>
    ELSE (IF Head(s) = c THEN <<>> ELSE <<Head(s)>>) \o RemoveAll(Tail(s), c)

\* s.split(c) for a one-character separator
RECURSIVE Split(_, _)
Split(s, c) ==
    LET p == IndexOf(s, <<c>>)
    IN  IF p = 0 THEN <<s>>
        ELSE <<SubSeq(s, 1, p - 1)>> \o Split(SubSeq(s, p + 1, Len(s)), c)

\* parts.join(sep)
RECURSIVE Join(_, _)
Join(parts, sep) ==
    IF parts = <<>> THEN <<>>
    ELSE IF Len(parts) = 1 THEN parts[1]
    ELSE parts[1] \o sep \o Join(Tail(parts), sep)

\* the length of the longest prefix of s made of digits
RECURSIVE DigitPrefixLen(_)
DigitPrefixLen(s) ==
    IF s = <<>> \/ Head(s) \notin Digits THEN 0
    ELSE 1 + DigitPrefixLen(Tail(s))

RECURSIVE DigitsValue(_)
DigitsValue(s) ==
    IF s = <<>> THEN 0
    ELSE 10 * DigitsValue(SubSeq(s, 1, Len(s) - 1)) + DigitVal(s[Len(s)])

RECURSIVE SkipWhiteSpace(_)
SkipWhiteSpace(s) ==
    IF s # <<>> /\ Head(s) \in WhiteSpace THEN SkipWhiteSpace(Tail(s)) ELSE s

\* parseInt(s): leading white space skipped, an optional sign, the longest
\* digit prefix read, NaN when there is none
Signed(t, n, sign) == IF n = 0 THEN NaN ELSE sign * DigitsValue(SubSeq(t, 1, n))

AfterSign(t) ==
    IF t # <<>> /\ Head(t) = "-" THEN Signed(Tail(t), DigitPrefixLen(Tail(t)), 0 - 1)
    ELSE IF t # <<>> /\ Head(t) = "+" THEN Signed(Tail(t), DigitPrefixLen(Tail(t)), 1)
    ELSE Signed(t, DigitPrefixLen(t), 1)

ParseInt(s) == AfterSign(SkipWhiteSpace(s))

\* Number(s) for the texts a resolution holds: "" is 0, digits are their
\* value, anything else is NaN
ToNumber(s) ==
    IF s = <<>> THEN 0
    ELSE IF AllDigits(s) THEN DigitsValue(s)
    ELSE NaN

RECURSIVE Pow10(_)
Pow10(n) == IF n = 0 THEN 1 ELSE 10 * Pow10(n - 1)

\* parseFloat(s) for digits with an optional fraction, as the exact rational
\* <<numerator, denominator>>; NaN when s does not start with a digit (the
\* time pattern lets no text starting with "." or a sign reach it)
ParseFloat(s) ==
    LET t == SkipWhiteSpace(s)
        n == DigitPrefixLen(t)
        rest == SubSeq(t, n + 1, Len(t))
        f == IF rest # <<>> /\ Head(rest) = "." THEN DigitPrefixLen(Tail(rest)) ELSE 0
    IN  IF n = 0 THEN NaN
        ELSE <<DigitsValue(SubSeq(t, 1, n)) * Pow10(f)
                 + DigitsValue(SubSeq(rest, 2, f + 1)), Pow10(f)>>

----------------------------------------------------------------------------
(* The words of the directive language (parser.ts, commandPatterns)        *)

\* The literal texts of the source, each a sequence of characters
lit ==
    [remove_frames |-> <<"r", "e", "m", "o", "v", "e", "_", "f", "r", "a", "m", "e", "s">>,
     input |-> <<"i", "n", "p", "u", "t">>,
     trim |-> <<"t", "r", "i", "m">>,
     add_text |-> <<"a", "d", "d", "_", "t", "e", "x", "t">>,
     burn |-> <<"b", "u", "r", "n">>,
     compress |-> <<"c", "o", "m", "p", "r", "e", "s", "s">>,
     convert |-> <<"c", "o", "n", "v", "e", "r", "t">>,
     scale |-> <<"s", "c", "a", "l", "e">>,
     fade |-> <<"f", "a", "d", "e">>,
     crop |-> <<"c", "r", "o", "p">>,
     every |-> <<"e", "v", "e", "r", "y">>,
     from |-> <<"f", "r", "o", "m">>,
     to |-> <<"t", "o">>,
     aspect |-> <<"a", "s", "p", "e", "c", "t">>,
     ratio |-> <<"r", "a", "t", "i", "o">>,
     for |-> <<"f", "o", "r">>,
     at |-> <<"a", "t">>,
     mp4 |-> <<"m", "p", "4">>,
     avi |-> <<"a", "v", "i">>,
     mov |-> <<"m", "o", "v">>,
     mkv |-> <<"m", "k", "v">>,
     webm |-> <<"w", "e", "b", "m">>,
     mp3 |-> <<"m", "p", "3">>,
     wav |-> <<"w", "a", "v">>,
     flac |-> <<"f", "l", "a", "c">>,
     aac |-> <<"a", "a", "c">>,
     jpg |-> <<"j", "p", "g">>,
     jpeg |-> <<"j", "p", "e", "g">>,
     png |-> <<"p", "n", "g">>,
     gif |-> <<"g", "i", "f">>,
     srt |-> <<"s", "r", "t">>,
     ass |-> <<"a", "s", "s">>,
     vtt |-> <<"v", "t", "t">>,
     ogg |-> <<"o", "g", "g">>,
     webp |-> <<"w", "e", "b", "p">>,
     mp4a |-> <<"m", "p", "4", "a">>,
     video |-> <<"v", "i", "d", "e", "o">>,
     audio |-> <<"a", "u", "d", "i", "o">>,
     preserve |-> <<"p", "r", "e", "s", "e", "r", "v", "e">>,
     ignore |-> <<"i", "g", "n", "o", "r", "e">>,
     top |-> <<"t", "o", "p">>,
     bottom |-> <<"b", "o", "t", "t", "o", "m">>,
     left |-> <<"l", "e", "f", "t">>,
     right |-> <<"r", "i", "g", "h", "t">>,
     width |-> <<"w", "i", "d", "t", "h">>,
     height |-> <<"h", "e", "i", "g", "h", "t">>,
     each |-> <<"e", "a", "c", "h">>,
     in |-> <<"i", "n">>,
     out |-> <<"o", "u", "t">>,
     in_out |-> <<"i", "n", "/", "o", "u", "t">>,
     text |-> <<"t", "e", "x", "t">>,
     image |-> <<"i", "m", "a", "g", "e">>,
     subtitles |-> <<"s", "u", "b", "t", "i", "t", "l", "e", "s">>,
     top_left |-> <<"t", "o", "p", "-", "l", "e", "f", "t">>,
     top_right |-> <<"t", "o", "p", "-", "r", "i", "g", "h", "t">>,
     bottom_left |-> <<"b", "o", "t", "t", "o", "m", "-", "l", "e", "f", "t">>,
     bottom_right |-> <<"b", "o", "t", "t", "o", "m", "-", "r", "i", "g", "h", "t">>,
     center |-> <<"c", "e", "n", "t", "e", "r">>,
     default |-> <<"d", "e", "f", "a", "u", "l", "t">>,
     px |-> <<"p", "x">>,
     crop_type |-> <<"C", "r", "o", "p">>,
     optimized_crop_type |-> <<"O", "p", "t", "i", "m", "i", "z", "e", "d", "C", "r", "o", "p">>,
     cropdetect |-> <<"c", "r", "o", "p", "d", "e", "t", "e", "c", "t", "=", "2", "4", ":", "1", "6", ":", "0">>,
     iw |-> <<"i", "w">>,
     ih |-> <<"i", "h">>,
     text_w |-> <<"t", "e", "x", "t", "_", "w">>,
     text_h |-> <<"t", "e", "x", "t", "_", "h">>]

\* String.prototype.toLowerCase on one character (the /i flag of a pattern)
LowerChar(c) ==
    CASE c = "A" -> "a" [] c = "B" -> "b" [] c = "C" -> "c" [] c = "D" -> "d"
      [] c = "E" -> "e" [] c = "F" -> "f" [] c = "G" -> "g" [] c = "H" -> "h"
      [] c = "I" -> "i" [] c = "J" -> "j" [] c = "K" -> "k" [] c = "L" -> "l"
      [] c = "M" -> "m" [] c = "N" -> "n" [] c = "O" -> "o" [] c = "P" -> "p"
      [] c = "Q" -> "q" [] c = "R" -> "r" [] c = "S" -> "s" [] c = "T" -> "t"
      [] c = "U" -> "u" [] c = "V" -> "v" [] c = "W" -> "w" [] c = "X" -> "x"
      [] c = "Y" -> "y" [] c = "Z" -> "z" [] OTHER -> c

Lower(s) == [p \in 1..Len(s) |-> LowerChar(s[p])]

ContainsAny(s, subs) == \E sub \in subs : Contains(s, sub)

\* /[0-9]+<suffix>/ : a digit directly followed by the suffix, anywhere
DigitsThen(s, suffix) ==
    \E p \in 1..Len(s) : s[p] \in Digits /\ MatchAt(s, p + 1, suffix)

\* "." of a regular expression matches anything but a line terminator
LineTerminators == {"\n", "\r"}

\* /^".*"$/
QuotedOneLine(s) ==
    /\ Len(s) >= 2
    /\ s[1] = "\""
    /\ s[Len(s)] = "\""
    /\ \A p \in 2..(Len(s) - 1) : s[p] \notin LineTerminators

inputExtensions ==
    {lit.mp4, lit.avi, lit.mov, lit.mkv, lit.webm, lit.mp3, lit.wav, lit.flac,
     lit.aac, lit.jpg, lit.jpeg, lit.png, lit.gif, lit.srt, lit.ass, lit.vtt}

convertFormats ==
    {lit.mp4, lit.mov, lit.mkv, lit.webm, lit.gif, lit.mp3, lit.wav, lit.flac,
     lit.aac, lit.ogg, lit.png, lit.jpg, lit.webp, lit.avi, lit.mp4a}

\* expected.test(token) for the regular expression bound to each parameter
\* (or, for the two quoted positions and /.+/, shared by several)
RegexTest(re, token) ==
    CASE re = "cycle" -> token # <<>> /\ AllDigits(token)
      [] re = "fileSelector" ->
            \/ Contains(token, <<"/">>)
            \/ \E e \in inputExtensions : EndsWith(Lower(token), <<".">> \o e)
      [] re = "time" -> \E p \in 1..Len(token) : token[p] \notin LineTerminators
      [] re = "outputFormat" -> ContainsAny(token, convertFormats)
      [] re = "bucket" -> ContainsAny(token, {lit.video, lit.audio})
      [] re = "resolution" ->
            \E p \in 1..Len(token) :
                /\ token[p] \in Digits
                /\ MatchAt(token, p + 1, <<"x">>)
                /\ p + 2 <= Len(token)
                /\ token[p + 2] \in Digits
      [] re = "aspectRatio" -> ContainsAny(token, {lit.preserve, lit.ignore})
      [] re = "cropSize" -> DigitsThen(token, lit.px)
      [] re = "side" ->
            ContainsAny(token, {lit.top, lit.bottom, lit.left, lit.right,
                                lit.width, lit.height, lit.each})
      [] re = "operation" -> ContainsAny(token, {lit.in, lit.out, lit.in_out})
      [] re = "duration" -> DigitsThen(token, <<"s">>)
      [] re = "contentType" -> ContainsAny(token, {lit.text, lit.image, lit.subtitles})
      [] re = "quoted" -> QuotedOneLine(token)
      [] re = "burnPosition" ->
            ContainsAny(token, {lit.top_left, lit.top_right, lit.bottom_left,
                                lit.bottom_right, lit.center, lit.left, lit.right,
                                lit.top, lit.bottom, lit.default})
      [] re = "textPosition" ->
            ContainsAny(token, {lit.top_left, lit.top_right, lit.bottom_left,
                                lit.bottom_right, lit.center})

----------------------------------------------------------------------------
(* The tokenizer: code.match(/(?:#[^\n]*\n|"[^"]*"|[^\s"#]+)/g)            *)

\* 1-based position of the first c at or after p, 0 when there is none
FindFrom(s, p, c) ==
    IF \E q \in p..Len(s) : s[q] = c
    THEN CHOOSE q \in p..Len(s) : s[q] = c /\ \A r \in p..(q - 1) : s[r] # c
    ELSE 0

IsWordChar(c) == c \notin WhiteSpace /\ c # "\"" /\ c # "#"

\* the end of the maximal run [^\s"#]+ that starts at p
RECURSIVE WordEnd(_, _)
WordEnd(s, p) ==
    IF p + 1 <= Len(s) /\ IsWordChar(s[p + 1]) THEN WordEnd(s, p + 1) ELSE p

\* The matches of pattern from position p on. At each position the three
\* alternatives are tried in order; where none matches the scan moves on by
\* one character.
RECURSIVE MatchPattern(_, _)
MatchPattern(s, p) ==
    IF p > Len(s) THEN <<>>
    ELSE LET c == s[p]
             nl == FindFrom(s, p + 1, "\n")
             q == FindFrom(s, p + 1, "\"")
         IN  IF c = "#" /\ nl # 0
             THEN <<SubSeq(s, p, nl)>> \o MatchPattern(s, nl + 1)
             ELSE IF c = "\"" /\ q # 0
             THEN <<SubSeq(s, p, q)>> \o MatchPattern(s, q + 1)
             ELSE IF IsWordChar(c)
             THEN <<SubSeq(s, p, WordEnd(s, p))>> \o MatchPattern(s, WordEnd(s, p) + 1)
             ELSE MatchPattern(s, p + 1)

----------------------------------------------------------------------------
(* The pattern registry (parser.ts, commandPatterns)                       *)

\* The value of an absent property or array element
undefined == <<"undefined">>

Literal(pos, text) ==
    [position |-> pos, kind |-> "literal", expected |-> text, paramName |-> "", optional |-> FALSE]

Regex(pos, re, name) ==
    [position |-> pos, kind |-> "regex", expected |-> re, paramName |-> name, optional |-> FALSE]

commandPatterns ==
    << [name |-> lit.remove_frames,
        expectedTokens |-> <<Literal(1, lit.every), Regex(2, "cycle", "cycle")>>],
       [name |-> lit.input,
        expectedTokens |-> <<Regex(1, "fileSelector", "fileSelector")>>],
       [name |-> lit.trim,
        expectedTokens |-> <<Literal(1, lit.from), Regex(2, "time", "start"),
                             Literal(3, lit.to), Regex(4, "time", "end")>>],
       [name |-> lit.convert,
        expectedTokens |-> <<Literal(1, lit.to), Regex(2, "outputFormat", "outputFormat")>>],
       [name |-> lit.compress,
        expectedTokens |-> <<Regex(1, "bucket", "bucket")>>],
       [name |-> lit.scale,
        expectedTokens |-> <<Literal(1, lit.to), Regex(2, "resolution", "resolution"),
                             Regex(3, "aspectRatio", "aspectRatio"),
                             Literal(4, lit.aspect), Literal(5, lit.ratio)>>],
       [name |-> lit.crop,
        expectedTokens |-> <<Regex(1, "cropSize", "cropSize"), Literal(2, lit.from),
                             Regex(3, "side", "side")>>],
       [name |-> lit.fade,
        expectedTokens |-> <<Regex(1, "operation", "operation"), Literal(2, lit.for),
                             Regex(3, "duration", "duration")>>],
       [name |-> lit.burn,
        expectedTokens |-> <<Regex(1, "contentType", "contentType"),
                             Regex(2, "quoted", "content"), Literal(3, lit.at),
                             Regex(4, "burnPosition", "position")>>],
       [name |-> lit.add_text,
        expectedTokens |-> <<Regex(1, "quoted", "text"), Literal(2, lit.at),
                             Regex(3, "textPosition", "position")>>] >>

\* commandPatterns.find((p) => p.name === command): its index, 0 when absent
FindPattern(command) ==
    IF \E n \in 1..Len(commandPatterns) : commandPatterns[n].name = command
    THEN CHOOSE n \in 1..Len(commandPatterns) :
            /\ commandPatterns[n].name = command
            /\ \A m \in 1..(n - 1) : commandPatterns[m].name # command
    ELSE 0

\* A validator returns a boolean or a message; `!value` is what the caller tests
BoolValue(b) == [kind |-> "boolean", value |-> b]
StringValue(str) == [kind |-> "string", value |-> str]
Truthy(v) == IF v.kind = "boolean" THEN v.value ELSE v.value # ""

\* /^(?:(?:(\d+):)?(\d{1,2}):)?(\d{1,2})(?:\.(\d+))?$/ on the parts of
\* value.split(":"), sec being the last part split at "."
TimeShape(parts, sec) ==
    /\ Len(parts) <= 3
    /\ Len(sec) <= 2
    /\ Len(sec[1]) \in 1..2 /\ AllDigits(sec[1])
    /\ Len(sec) = 2 => (Len(sec[2]) >= 1 /\ AllDigits(sec[2]))
    /\ Len(parts) >= 2 => (Len(parts[Len(parts) - 1]) \in 1..2
                            /\ AllDigits(parts[Len(parts) - 1]))
    /\ Len(parts) = 3 => (Len(parts[1]) >= 1 /\ AllDigits(parts[1]))

\* timePattern.test(value)
timePattern(value) ==
    TimeShape(Split(value, ":"), Split(Split(value, ":")[Len(Split(value, ":"))], "."))

\* Numbers with a fraction are exact rationals <<numerator, denominator>>;
\* a denominator of 0 is NaN
ToFloat(v) == IF v = NaN THEN <<0, 0>> ELSE v
FloatLess(a, b) == a[2] # 0 /\ b[2] # 0 /\ a[1] * b[2] < b[1] * a[2]

\* seconds, minutes and hours of value.split(":")
PartSeconds(parts) == ToFloat(ParseFloat(parts[Len(parts)]))
PartMinutes(parts) == IF Len(parts) > 1 THEN ParseInt(parts[Len(parts) - 1]) ELSE 0
PartHours(parts) == IF Len(parts) > 2 THEN ParseInt(parts[Len(parts) - 2]) ELSE 0

PartsInRange(parts) ==
    /\ FloatLess(PartSeconds(parts), <<60, 1>>)
    /\ PartMinutes(parts) < 60
    /\ PartHours(parts) < 24

validateFormat(value) ==
    IF ~timePattern(value) THEN FALSE ELSE PartsInRange(Split(value, ":"))

\* hours * 3600 + minutes * 60 + seconds
PartsTotal(parts) ==
    <<(PartHours(parts) * 3600 + PartMinutes(parts) * 60) * PartSeconds(parts)[2]
        + PartSeconds(parts)[1],
      PartSeconds(parts)[2]>>

convertToSeconds(value) ==
    IF timePattern(value) THEN PartsTotal(Split(value, ":"))
    ELSE ToFloat(ParseFloat(value))

\* A validator that checked the two formats and not their order
validateTrimFormats(start, end) == validateFormat(start) /\ validateFormat(end)

validateTrimParams(start, end) ==
    IF ~validateFormat(start) \/ ~validateFormat(end) THEN FALSE
    ELSE FloatLess(convertToSeconds(start), convertToSeconds(end))

\* the validator of remove_frames, on cycle = parseInt(params.cycle)
ValidateCycle(cycle) ==
    IF cycle < 2 \/ cycle > 30 THEN StringValue("Invalid cycle") ELSE BoolValue(TRUE)

\* pattern.validate(params)
validate(name, params) ==
    CASE name = lit.remove_frames ->
            ValidateCycle(ParseInt(params.cycle))
      [] name = lit.trim -> BoolValue(validateTrimParams(params.start, params.end))
      [] name = lit.burn ->
            IF params.contentType = lit.subtitles
            THEN BoolValue(\/ EndsWith(params.content, <<".">> \o lit.ass \o <<"\"">>)
                           \/ EndsWith(params.content, <<".">> \o lit.srt \o <<"\"">>))
            ELSE IF params.contentType = lit.image
            THEN BoolValue(\/ EndsWith(params.content, <<".">> \o lit.png \o <<"\"">>)
                           \/ EndsWith(params.content, <<".">> \o lit.jpeg \o <<"\"">>)
                           \/ EndsWith(params.content, <<".">> \o lit.jpg \o <<"\"">>))
            ELSE BoolValue(TRUE)
      [] OTHER -> BoolValue(TRUE)

\* const [width, height] = params.resolution.split("x"), and the Scale node
ScaleNode(wh, aspectRatio) ==
    [type |-> "Scale",
     params |-> [width |-> wh[1],
                 height |-> IF Len(wh) >= 2 THEN wh[2] ELSE undefined,
                 aspectRatio |-> aspectRatio]]

\* pattern.createNode(params)
createNode(name, params) ==
    CASE name = lit.remove_frames ->
            [type |-> "Deduplicate", params |-> [cycle |-> ParseInt(params.cycle)]]
      [] name = lit.input ->
            [type |-> "Input",
             params |-> [fileSelector |-> params.fileSelector,
                         filename |-> IF params.fileSelector # <<"/">>
                                      THEN params.fileSelector ELSE undefined]]
      [] name = lit.trim ->
            [type |-> "Trim", params |-> [start |-> params.start, end |-> params.end]]
      [] name = lit.convert ->
            [type |-> "Convert", params |-> [outputFormat |-> params.outputFormat]]
      [] name = lit.compress ->
            [type |-> "Compress", params |-> [bucket |-> params.bucket]]
      [] name = lit.scale ->
            ScaleNode(Split(params.resolution, "x"), params.aspectRatio)
      [] name = lit.crop ->
            [type |-> "Crop", params |-> [cropSize |-> params.cropSize, side |-> params.side]]
      [] name = lit.fade ->
            [type |-> "Fade",
             params |-> [operation |-> params.operation, duration |-> params.duration]]
      [] name = lit.burn ->
            [type |-> "ContentOverlay",
             params |-> [content |-> params.content, contentType |-> params.contentType,
                         position |-> params.position]]
      [] name = lit.add_text ->
            [type |-> "TextOverlay",
             params |-> [text |-> params.text, position |-> params.position,
                         alignment |-> lit.left, margin |-> 0]]

----------------------------------------------------------------------------
(* The matcher (parser.ts, validateCommandPatterns and processCommand)     *)

\* A failed Result that left the cursor one token before the last one checked
FailureBack(last, err) ==
    [success |-> FALSE, lastIndex |-> last - 1, error |-> err,
     node |-> undefined, source |-> undefined]

Failure(last, err) ==
    [success |-> FALSE, lastIndex |-> last, error |-> err,
     node |-> undefined, source |-> undefined]

Success(last, n, src) ==
    [success |-> TRUE, lastIndex |-> last, error |-> undefined,
     node |-> n, source |-> src]

\* validated, for one entry of expectedTokens
TokenValidated(tokenCheck, token) ==
    IF tokenCheck.kind = "regex"
    THEN RegexTest(tokenCheck.expected, token)
    ELSE token = tokenCheck.expected

\* args[tokenCheck.position]: args[1] is the command word (position 0)
TokenAt(args, tokenCheck) == args[tokenCheck.position + 1]

\* The index of the first entry of expectedTokens that does not validate, 0
\* when all do
RECURSIVE FirstInvalid(_, _, _)
FirstInvalid(expectedTokens, args, j) ==
    IF j > Len(expectedTokens) THEN 0
    ELSE IF ~TokenValidated(expectedTokens[j], TokenAt(args, expectedTokens[j])) THEN j
    ELSE FirstInvalid(expectedTokens, args, j + 1)

\* params once every entry has validated: paramName -> token
BoundParams(expectedTokens, args) ==
    [pn \in {expectedTokens[j].paramName : j \in 1..Len(expectedTokens)} \ {""} |->
        TokenAt(args, expectedTokens[CHOOSE j \in 1..Len(expectedTokens) :
                                        expectedTokens[j].paramName = pn])]

\* A validateCommandPatterns whose echo joined the window without a separator
ValidateAndCreateUnspaced(command, args, params) ==
    IF ~Truthy(validate(command, params))
    THEN Failure(Len(args) - 1, <<"Params didn't validate", Join(args, <<" ">>)>>)
    ELSE Success(Len(args) - 1, createNode(command, params), Join(args, <<>>))

\* The end of validateCommandPatterns, all tokens having validated
ValidateAndCreate(command, args, params) ==
    IF ~Truthy(validate(command, params))
    THEN Failure(Len(args) - 1, <<"Params didn't validate", Join(args, <<" ">>)>>)
    ELSE Success(Len(args) - 1, createNode(command, params), Join(args, <<" ">>))

\* The loop of validateCommandPatterns and what follows it; bad is the first
\* entry that does not validate
CheckTokens(command, args, expectedTokens, bad) ==
    IF bad # 0
    THEN Failure(expectedTokens[bad].position,
                 <<"Invalid command arguments", command, TokenAt(args, expectedTokens[bad])>>)
    ELSE ValidateAndCreate(command, args, BoundParams(expectedTokens, args))

WithValidator(args, expectedTokens) ==
    CheckTokens(args[1], args, expectedTokens, FirstInvalid(expectedTokens, args, 1))

validateCommandPatterns(args) ==
    IF FindPattern(args[1]) = 0
    THEN Failure(0, <<"Could not find a validator for", args[1]>>)
    ELSE WithValidator(args, commandPatterns[FindPattern(args[1])].expectedTokens)

\* Math.max over the positions of a pattern's tokens
MaxPosition(expectedTokens) ==
    CHOOSE m \in {expectedTokens[j].position : j \in 1..Len(expectedTokens)} :
        \A j \in 1..Len(expectedTokens) : expectedTokens[j].position <= m

\* processCommand once the pattern is found
WithPattern(ws, startIndex, expectedTokens, requiredTokens) ==
    IF Len(requiredTokens) > 0 /\ startIndex + MaxPosition(requiredTokens) >= Len(ws)
    THEN Failure(startIndex, <<"Incomplete command", ws[startIndex + 1]>>)
    ELSE validateCommandPatterns(
            SubSeq(ws, startIndex + 1,
                   IF startIndex + MaxPosition(expectedTokens) + 1 < Len(ws)
                   THEN startIndex + MaxPosition(expectedTokens) + 1
                   ELSE Len(ws)))

\* startIndex is 0-based, as in the source: words[startIndex] is ws[startIndex + 1]
processCommand(ws, startIndex) ==
    IF FindPattern(ws[startIndex + 1]) = 0
    THEN Failure(startIndex, <<"Unknown command", ws[startIndex + 1]>>)
    ELSE WithPattern(ws, startIndex,
                     commandPatterns[FindPattern(ws[startIndex + 1])].expectedTokens,
                     SelectSeq(commandPatterns[FindPattern(ws[startIndex + 1])].expectedTokens,
                               LAMBDA t : ~t.optional))

validateComment(str) == str[1] = "#" /\ str[Len(str)] = "\n"

----------------------------------------------------------------------------
(* The directive texts the model is run on                                 *)

MaxLines == 3       \* directives of a general program
MaxCrops == 2       \* crop directives of a crop program
MaxRenders == 2     \* renders of the Parser page
MaxEvents == 2      \* input events of the editor

Line(ws) == Join(ws, <<" ">>) \o <<"\n">>

Px(n) == n \o lit.px

\* General directives: well-formed ones of every destination, and each way
\* for a directive to fail
Directives ==
    << <<"#", " ", "c", "\n">>,
       Line(<<lit.trim, lit.from, <<"1", "0">>, lit.to, <<"2", "0">>>>),
       Line(<<lit.trim, lit.from, <<"1", "0">>, lit.to, <<"5">>>>),
       Line(<<lit.convert, lit.to, lit.mp4>>),
       Line(<<lit.compress, lit.video>>),
       Line(<<lit.remove_frames, lit.every, <<"4">>>>),
       Line(<<lit.remove_frames>>),
       Line(<<lit.scale, lit.to, <<"4", "x", "4">>, lit.preserve, lit.aspect, lit.ratio>>),
       Line(<<lit.crop, Px(<<"1", "0">>), lit.from, lit.left>>),
       Line(<<lit.crop, Px(<<"0">>), lit.from, lit.each>>),
       Line(<<lit.crop, <<"1", "0">>, lit.from, lit.left>>),
       Line(<<lit.fade, lit.in, lit.for, <<"2", "s">>>>),
       Line(<<lit.add_text, <<"\"", "h", "i", "\"">>, lit.at, lit.center>>) >>

RECURSIVE Programs(_)
Programs(n) ==
    IF n = 0 THEN {<<>>}
    ELSE LET shorter == Programs(n - 1)
         IN  shorter \cup {prog \o Directives[d] :
                              prog \in shorter, d \in 1..Len(Directives)}

\* Crop directives of three sizes on every side
CropLines ==
    {Line(<<lit.crop, Px(n), lit.from, side>>) :
        n \in {<<"0">>, <<"1", "0">>, <<"3", "0">>},
        side \in {lit.left, lit.right, lit.top, lit.bottom, lit.width, lit.height,
                  lit.each}}

\* Crop programs: 1..MaxCrops crop directives, alone or between other directives
RECURSIVE CropSeqs(_)
CropSeqs(n) ==
    IF n = 0 THEN {<<>>}
    ELSE {<<c>> \o cs : c \in CropLines, cs \in CropSeqs(n - 1)}

RECURSIVE Interleave(_, _)
Interleave(cs, others) ==
    IF cs = <<>> THEN Join(others, <<>>)
    ELSE IF others = <<>> THEN Join(cs, <<>>)
    ELSE Head(others) \o Head(cs) \o Interleave(Tail(cs), Tail(others))

CropPrograms ==
    UNION {{Join(cs, <<>>),
            Interleave(cs,
                << Line(<<lit.convert, lit.to, lit.mp4>>),
                   Line(<<lit.scale, lit.to, <<"4", "x", "4">>, lit.ignore, lit.aspect,
                          lit.ratio>>),
                   Line(<<lit.trim, lit.from, <<"1", "0">>, lit.to, <<"2", "0">>>>) >>)} :
              cs \in UNION {CropSeqs(n) : n \in 1..MaxCrops}}

\* Trim directives over times of every shape
TrimPrograms ==
    {Line(<<lit.trim, lit.from, a, lit.to, b>>) : a, b \in
    { <<"1", "0">>, <<"5">>, <<"2", "0">>, <<"6", "0">>, <<"1", ":", "3", "0">>, <<"3", ":", "4", "5">>,
      <<"0", ":", "1", "0">>, <<"1", ":", "6", "0">>, <<"1", "0", ".", "5">>,
      <<"2", "3", ":", "5", "9", ":", "5", "9">>, <<"2", "4", ":", "0", "0", ":", "0", "0">>,
      <<"1", "0", "0">>, <<"a", "b", "c">>, <<"1", ":", "2", ":", "3", ":", "4">> }}

\* remove_frames directives around the limits of the cycle
CyclePrograms ==
    {Line(<<lit.remove_frames, lit.every, c>>) :
        c \in {<<"1">>, <<"2">>, <<"4">>, <<"3", "0">>, <<"3", "1">>, <<"a", "b", "c">>,
               <<"0", "4">>}}

\* Texts of the documentation and of its rules, each a whole program
DocumentedPrograms ==
    {\* the Dictionary's cropping example
     Line(<<lit.crop, Px(<<"1", "0", "0">>), lit.from, lit.left>>)
        \o Line(<<lit.crop, Px(<<"5", "0">>), lit.from, lit.right>>),
     \* the Dictionary's compression example, alone and before a conversion
     <<"c", "o", "m", "p", "r", "e", "s", "s", " ", "a", "u", "d", "i", "o", "\n">>,
     <<"c", "o", "m", "p", "r", "e", "s", "s", " ", "a", "u", "d", "i", "o", "\n", "c",
             "o", "m", "p", "r", "e", "s", "s", " ", "v", "i", "d", "e", "o", "\n">>,
     <<"c", "o", "m", "p", "r", "e", "s", "s", " ", "a", "u", "d", "i", "o", "\n", "c",
             "o", "n", "v", "e", "r", "t", " ", "t", "o", " ", "m", "p", "3", "\n">>,
     \* directives whose first word is no command name
     <<"r", "o", "t", "a", "t", "e", " ", "9", "0", "\n">>,
     <<"r", "o", "t", "a", "t", "e", " ", "9", "0", "\n", "t", "r", "i", "m", " ", "f",
             "r", "o", "m", " ", "1", "0", " ", "t", "o", " ", "2", "0", "\n">>,
     <<"t", "r", "i", "m", "s", " ", "f", "r", "o", "m", " ", "1", "0", " ", "t", "o",
             " ", "2", "0", "\n">>,
     \* directives chained with ";" on one line
     <<"t", "r", "i", "m", " ", "f", "r", "o", "m", " ", "1", "0", " ", "t", "o", " ",
             "2", "0", ";", " ", "c", "o", "m", "p", "r", "e", "s", "s", " ", "v", "i",
             "d", "e", "o", "\n">>,
     <<"t", "r", "i", "m", " ", "f", "r", "o", "m", " ", "1", "0", " ", "t", "o", " ",
             "2", "0", ";", " ", "c", "o", "m", "p", "r", "e", "s", "s", " ", "v", "i",
             "d", "e", "o", ";", " ", "c", "o", "n", "v", "e", "r", "t", " ", "t", "o",
             " ", "m", "p", "4", "\n">>,
     <<"f", "a", "d", "e", " ", "i", "n", " ", "f", "o", "r", " ", "2", "s", ";", " ",
             "t", "r", "i", "m", " ", "f", "r", "o", "m", " ", "1", "0", " ", "t", "o",
             " ", "2", "0", ";", " ", "c", "r", "o", "p", " ", "1", "0", "p", "x", " ",
             "f", "r", "o", "m", " ", "l", "e", "f", "t", "\n">>,
     \* the Dictionary's comments example, shortened: whole-line and inline comments,
     \* the text ending with or without a line break
     <<"#", " ", "c", "\n", "c", "r", "o", "p", " ", "1", "0", "p", "x", " ", "f", "r",
             "o", "m", " ", "l", "e", "f", "t", " ", " ", "#", " ", "c", "\n">>,
     <<"#", " ", "c", "\n", "c", "r", "o", "p", " ", "1", "0", "p", "x", " ", "f", "r",
             "o", "m", " ", "l", "e", "f", "t", " ", " ", "#", " ", "c", "r", "o", "p",
             " ", "m", "o", "r", "e">>,
     <<"t", "r", "i", "m", " ", "f", "r", "o", "m", " ", "1", "0", " ", "t", "o", " ",
             "2", "0", "\n", "#", " ", "c", "o", "m", "p", "r", "e", "s", "s", " ", "v",
             "i", "d", "e", "o">>,
     \* a quoted text with a space, as in the editor's example
     <<"a", "d", "d", "_", "t", "e", "x", "t", " ", "\"", "H", "e", "l", "l", "o", " ",
             "W", "o", "r", "l", "d", "\"", " ", "a", "t", " ", "c", "e", "n", "t", "e",
             "r", "\n">>,
     \* keywords in upper and mixed case
     <<"T", "R", "I", "M", " ", "f", "r", "o", "m", " ", "1", "0", " ", "t", "o", " ",
             "2", "0", "\n">>,
     <<"C", "o", "m", "p", "r", "e", "s", "s", " ", "v", "i", "d", "e", "o", "\n", "t",
             "r", "i", "m", " ", "f", "r", "o", "m", " ", "1", "0", " ", "t", "o", " ",
             "2", "0", "\n">>}

\* The text of the Parser page (parser/page.tsx, const code)
code ==
    <<"#", " ", "E", "x", "a", "m", "p", "l", "e", " ", "c", "o", "d", "e", " ", "i",
    "n", " ", "n", "a", "t", "u", "r", "a", "l", " ", "f", "f", "m", "p", "e", "g",
    " ", "l", "a", "n", "g", "u", "a", "g", "e", "\n", "t", "r", "i", "m", " ",
    "f", "r", "o", "m", " ", "1", "0", " ", "t", "o", " ", "2", "0", "\n", "t",
    "r", "i", "m", " ", "f", "r", "o", "m", " ", "1", "0", ":", "3", "0", " ", "t",
    "o", " ", "1", "2", ":", "3", "0", "\n", "t", "r", "i", "m", " ", "f", "r",
    "o", "m", " ", "0", "0", ":", "1", "0", ".", "0", "0", " ", "t", "o", " ", "0",
    "0", ":", "0", "0", ":", "2", "0", ".", "0", "0", "\n">>

\* Texts the editor's textarea holds after an input event: no input line, one,
\* one followed by the file trigger, the file trigger alone, two input lines
EditorTexts ==
    {<<"c", "o", "m", "p", "r", "e", "s", "s", " ", "v", "i", "d", "e", "o", "\n">>,
     <<"i", "n", "p", "u", "t", " ", "a", ".", "m", "p", "4", "\n">>,
     <<"i", "n", "p", "u", "t", " ", "a", ".", "m", "p", "4", "\n", "i", "n", "p", "u",
     "t", " ", "/">>,
     <<"i", "n", "p", "u", "t", " ", "/">>,
     <<"i", "n", "p", "u", "t", " ", "a", ".", "m", "p", "4", "\n", "i", "n", "p", "u",
     "t", " ", "b", ".", "m", "p", "4", "\n">>}

Inputs ==
    Programs(MaxLines) \cup CropPrograms \cup TrimPrograms \cup CyclePrograms
        \cup DocumentedPrograms \cup EditorTexts \cup {code}
        \cup {Line(<<lit.crop, Px(<<"-", "1", "0">>), lit.from, lit.left>>),
              Line(<<lit.crop, Px(<<"-", "1", "0">>), lit.from, lit.left>>)
                  \o Line(<<lit.crop, Px(<<"1", "0">>), lit.from, lit.top>>)}

----------------------------------------------------------------------------
(* parser(input) (parser.ts, 500-637)                                      *)

\* The `if` blocks of the loop body after the comment check, in source order
parserChain ==
    << lit.remove_frames, lit.input, lit.trim, lit.add_text, lit.burn,
       lit.compress, lit.convert, lit.scale, lit.fade, lit.crop >>

\* The two modules with a loadFFmpeg, each with its own `let ffmpeg = null`
Modules == {"ffmpeg.js", "ffprobe.js"}

\* Everything but the text as it is before the first run; null is 0
Blank ==
    /\ fileInfo = undefined
    /\ pc = "start"
    /\ words = <<>>
    /\ i = 0
    /\ chain = 0
    /\ commands = <<>>
    /\ errors = <<>>
    /\ parsedCommands = <<>>
    /\ lastResult = Failure(0, undefined)
    /\ passes = 0
    /\ optimizedCommands = <<>>
    /\ k = 0
    /\ processedCommands = <<>>
    /\ videoFilters = <<>>
    /\ audioFilters = <<>>
    /\ output = undefined
    /\ events = 0
    /\ fileSelectorType = "null"
    /\ previous = [done |-> FALSE, input |-> <<>>, fileInfo |-> undefined,
                   commands |-> <<>>, errors |-> <<>>, parsedCommands |-> <<>>,
                   output |-> undefined]
    /\ page = [commands |-> <<>>, errors |-> <<>>, parsedCommands |-> <<>>, renders |-> 0]
    /\ pending = <<>>
    /\ tokens = <<>>
    /\ ffmpeg = [m \in Modules |-> 0]
    /\ calls = <<>>

Init == input \in Inputs /\ Blank

\* const code = input.replace(";", " "); const words = code.match(pattern);
\* a null match returns the empty result at once
Matched(matched) ==
    /\ words' = matched
    /\ pc' = IF matched = <<>> THEN "parsed" ELSE "parsing"

ParserStart ==
    /\ pc = "start"
    /\ Matched(MatchPattern(ReplaceFirst(input, <<";">>, <<" ">>), 1))
    /\ i' = 0
    /\ chain' = 0
    /\ commands' = <<>>
    /\ errors' = <<>>
    /\ parsedCommands' = <<>>
    /\ passes' = 0
    /\ UNCHANGED <<input, fileInfo, lastResult>>
    /\ UNCHANGED compilerVars
    /\ UNCHANGED sessionVars

\* words[i] when i is inside the array
HasWord == i < Len(words)
Word == words[i + 1]

\* The blocks of the chain, from `chain` on, whose keyword is words[i]
OpenBlocks ==
    {c \in 1..Len(parserChain) : c >= chain /\ HasWord /\ Word = parserChain[c]}

\* A comment check that pushed the Comment node without its text
ParserCommentNoEcho ==
    /\ pc = "parsing"
    /\ chain = 0
    /\ HasWord
    /\ validateComment(Word)
    /\ commands' = Append(commands, [type |-> "Comment", params |-> [content |-> Word]])
    /\ chain' = 1
    /\ UNCHANGED <<input, fileInfo, pc, words, i, errors, lastResult, passes,
                   parsedCommands>>
    /\ UNCHANGED compilerVars
    /\ UNCHANGED sessionVars

\* if (validateComment(words[i])) { ... }
ParserComment ==
    /\ pc = "parsing"
    /\ chain = 0
    /\ HasWord
    /\ validateComment(Word)
    /\ parsedCommands' = Append(parsedCommands, Word)
    /\ commands' = Append(commands, [type |-> "Comment", params |-> [content |-> Word]])
    /\ chain' = 1
    /\ UNCHANGED <<input, fileInfo, pc, words, i, errors, lastResult, passes>>
    /\ UNCHANGED compilerVars
    /\ UNCHANGED sessionVars

\* A block that pushed the node of a failed result as well as its error
PushResultBoth(result) ==
    IF ~result.success
    THEN /\ errors' = Append(errors, result.error)
         /\ commands' = Append(commands, result.node)
         /\ UNCHANGED parsedCommands
    ELSE /\ commands' = Append(commands, result.node)
         /\ parsedCommands' = Append(parsedCommands, result.source)
         /\ UNCHANGED errors

\* What a block does with the result of processCommand
PushResult(result) ==
    IF ~result.success
    THEN /\ errors' = Append(errors, result.error)
         /\ UNCHANGED <<commands, parsedCommands>>
    ELSE /\ commands' = Append(commands, result.node)
         /\ parsedCommands' = Append(parsedCommands, result.source)
         /\ UNCHANGED errors

\* The body of a block: i += result.lastIndex, then the push
BlockBody(result) ==
    /\ i' = i + result.lastIndex
    /\ PushResult(result)
    /\ lastResult' = result

\* The first block of the rest of the chain whose keyword is words[i]
FirstOpenBlock == CHOOSE c \in OpenBlocks : \A d \in OpenBlocks : c <= d

\* if (words[i] === "<keyword>") { const result = processCommand(words, i);
\*   i += result.lastIndex; ... }: the first block of the rest of the chain that
\* is entered
ParserDispatch ==
    /\ pc = "parsing"
    /\ chain > 0 \/ (HasWord /\ ~validateComment(Word))
    /\ OpenBlocks # {}
    /\ BlockBody(processCommand(words, i))
    /\ chain' = FirstOpenBlock + 1
    /\ UNCHANGED <<input, fileInfo, pc, words, passes>>
    /\ UNCHANGED compilerVars
    /\ UNCHANGED sessionVars

\* The end of the loop body: i++
ParserAdvance ==
    /\ pc = "parsing"
    /\ chain > 0 \/ HasWord
    /\ ~(chain = 0 /\ HasWord /\ validateComment(Word))
    /\ OpenBlocks = {}
    /\ i' = i + 1
    /\ chain' = 0
    /\ passes' = passes + 1
    /\ UNCHANGED <<input, fileInfo, pc, words, commands, errors, parsedCommands, lastResult>>
    /\ UNCHANGED compilerVars
    /\ UNCHANGED sessionVars

\* The loop test fails: return { errors, commands, parsedCommands }
ParserReturn ==
    /\ pc = "parsing"
    /\ chain = 0
    /\ ~HasWord
    /\ pc' = "parsed"
    /\ UNCHANGED <<input, fileInfo>>
    /\ UNCHANGED parserVars
    /\ UNCHANGED compilerVars
    /\ UNCHANGED sessionVars

----------------------------------------------------------------------------
(* parser(input) as a function of the text: the same loop, run to its end  *)

\* The blocks of the chain, from st.chain on, whose keyword is ws[st.i]
OpenBlocksOf(ws, st) ==
    {c \in 1..Len(parserChain) :
        c >= st.chain /\ st.i < Len(ws) /\ ws[st.i + 1] = parserChain[c]}

FirstBlock(blocks) == CHOOSE c \in blocks : \A d \in blocks : c <= d

\* A keyword block on the locals: i += result.lastIndex, then the push
BlockOn(st, result, block) ==
    IF ~result.success
    THEN [st EXCEPT !.i = @ + result.lastIndex, !.chain = block + 1,
                    !.errors = Append(@, result.error)]
    ELSE [st EXCEPT !.i = @ + result.lastIndex, !.chain = block + 1,
                    !.commands = Append(@, result.node),
                    !.parsedCommands = Append(@, result.source)]

\* One step of the loop body: the comment check, the next block entered, or
\* the end of the body
LoopStep(ws, st) ==
    IF st.chain = 0 /\ validateComment(ws[st.i + 1])
    THEN [st EXCEPT !.chain = 1,
                    !.parsedCommands = Append(@, ws[st.i + 1]),
                    !.commands = Append(@, [type |-> "Comment",
                                            params |-> [content |-> ws[st.i + 1]]])]
    ELSE IF OpenBlocksOf(ws, st) # {}
    THEN BlockOn(st, processCommand(ws, st.i), FirstBlock(OpenBlocksOf(ws, st)))
    ELSE [st EXCEPT !.i = @ + 1, !.chain = 0]

\* for (let i = 0; i < words.length; i++) { ... }
RECURSIVE ParserLoop(_, _)
ParserLoop(ws, st) ==
    IF st.chain = 0 /\ st.i >= Len(ws) THEN st
    ELSE ParserLoop(ws, LoopStep(ws, st))

\* return { errors, commands, parsedCommands }
ParserResult(st) ==
    [errors |-> st.errors, commands |-> st.commands, parsedCommands |-> st.parsedCommands]

parser(text) ==
    ParserResult(ParserLoop(MatchPattern(ReplaceFirst(text, <<";">>, <<" ">>), 1),
                            [i |-> 0, chain |-> 0, commands |-> <<>>, errors |-> <<>>,
                             parsedCommands |-> <<>>]))

----------------------------------------------------------------------------
(* The compiler (ffmpegCompiler.tsx): its builders of filter texts         *)

DigitChar(d) ==
    CASE d = 0 -> "0" [] d = 1 -> "1" [] d = 2 -> "2" [] d = 3 -> "3" [] d = 4 -> "4"
      [] d = 5 -> "5" [] d = 6 -> "6" [] d = 7 -> "7" [] d = 8 -> "8" [] d = 9 -> "9"

RECURSIVE NatToStr(_)
NatToStr(n) ==
    IF n < 10 THEN <<DigitChar(n)>>
    ELSE NatToStr(n \div 10) \o <<DigitChar(n % 10)>>

\* `${n}` for an integer
Str(n) == IF n < 0 THEN <<"-">> \o NatToStr(0 - n) ELSE NatToStr(n)

\* s.trim()
RECURSIVE TrimEnd(_)
TrimEnd(s) ==
    IF s # <<>> /\ s[Len(s)] \in WhiteSpace THEN TrimEnd(SubSeq(s, 1, Len(s) - 1)) ELSE s
StrTrim(s) == TrimEnd(SkipWhiteSpace(s))

COMMAND_ORDER ==
    [input_trim |-> 10, global |-> 20, video_filter |-> 30, audio_filter |-> 40,
     output_format |-> 50, output_codec |-> 60]

\* The order given to an error caught while a command is processed
ERROR_ORDER == 999

\* A call either returns a value or throws an Error with a message
Returned(v) == [thrown |-> FALSE, value |-> v, message |-> <<>>]
Thrown(msg) == [thrown |-> TRUE, value |-> <<>>, message |-> msg]

\* fileInfo?.video?.resolution?.raw is truthy
HasResolution(fi) == fi.resolution # undefined /\ fi.resolution # <<>>

\* fileInfo.video.resolution.raw.split("x").map(Number)
Dimensions(fi) ==
    LET parts == Split(fi.resolution, "x")
    IN  <<ToNumber(parts[1]), IF Len(parts) >= 2 THEN ToNumber(parts[2]) ELSE NaN>>

\* parseInt(cropSize.replace("px", ""))
CropSize(cropSize) == ParseInt(ReplaceFirst(cropSize, lit.px, <<>>))

\* A switch whose case "each" left the top and bottom totals alone
AddCropEachAsWidth(acc, side, size) ==
    CASE side = lit.left -> [acc EXCEPT !.leftCrop = @ + size]
      [] side = lit.right -> [acc EXCEPT !.rightCrop = @ + size]
      [] side = lit.top -> [acc EXCEPT !.topCrop = @ + size]
      [] side = lit.bottom -> [acc EXCEPT !.bottomCrop = @ + size]
      [] side \in {lit.width, lit.each} ->
            [acc EXCEPT !.leftCrop = @ + size, !.rightCrop = @ + size]
      [] side = lit.height ->
            [acc EXCEPT !.topCrop = @ + size, !.bottomCrop = @ + size]
      [] OTHER -> acc

\* The switch of optimizeCrops for one crop command of the given side and size
AddCrop(acc, side, size) ==
    CASE side = lit.left -> [acc EXCEPT !.leftCrop = @ + size]
      [] side = lit.right -> [acc EXCEPT !.rightCrop = @ + size]
      [] side = lit.top -> [acc EXCEPT !.topCrop = @ + size]
      [] side = lit.bottom -> [acc EXCEPT !.bottomCrop = @ + size]
      [] side = lit.width ->
            [acc EXCEPT !.leftCrop = @ + size, !.rightCrop = @ + size]
      [] side = lit.height ->
            [acc EXCEPT !.topCrop = @ + size, !.bottomCrop = @ + size]
      [] side = lit.each ->
            [acc EXCEPT !.leftCrop = @ + size, !.rightCrop = @ + size,
                        !.topCrop = @ + size, !.bottomCrop = @ + size]
      [] OTHER -> acc

\* An accumulator that keeps the first crop only
AccumulateFirst(acc, cmd) ==
    IF acc.leftCrop + acc.rightCrop + acc.topCrop + acc.bottomCrop # 0 THEN acc
    ELSE AddCrop(acc, cmd.params.side, CropSize(cmd.params.cropSize))

Accumulate(acc, cmd) == AddCrop(acc, cmd.params.side, CropSize(cmd.params.cropSize))

\* cropCommands.forEach(...) over the accumulator
RECURSIVE AccumulateAll(_, _)
AccumulateAll(acc, cropCommands) ==
    IF cropCommands = <<>> THEN acc
    ELSE AccumulateAll(Accumulate(acc, Head(cropCommands)), Tail(cropCommands))

\* `Total ${edge} crop (${total}px) exceeds video ${edge} (${dimension}px)`
ExceedsText(edge, total, dimension) ==
    <<"T", "o", "t", "a", "l", " ">> \o edge \o <<" ", "c", "r", "o", "p", " ", "(">>
    \o Str(total) \o <<"p", "x", ")", " ", "e", "x", "c", "e", "e", "d", "s", " ", "v", "i", "d", "e", "o", " ">>
    \o edge \o <<" ", "(">> \o Str(dimension) \o <<"p", "x", ")">>

OptimizedCropNode(accumulator) ==
    [type |-> "OptimizedCrop",
     params |-> [leftCrop |-> accumulator.leftCrop,
                 rightCrop |-> accumulator.rightCrop,
                 topCrop |-> accumulator.topCrop,
                 bottomCrop |-> accumulator.bottomCrop,
                 isOptimized |-> TRUE]]

\* The validation of createOptimizedCropCommand when the resolution is known
CheckTotals(accumulator, width, height, totalWidthCrop, totalHeightCrop) ==
    IF totalWidthCrop >= width
    THEN Thrown(ExceedsText(lit.width, totalWidthCrop, width))
    ELSE IF totalHeightCrop >= height
    THEN Thrown(ExceedsText(lit.height, totalHeightCrop, height))
    ELSE Returned(OptimizedCropNode(accumulator))

createOptimizedCropCommand(accumulator, fi) ==
    IF HasResolution(fi)
    THEN CheckTotals(accumulator, Dimensions(fi)[1], Dimensions(fi)[2],
                     accumulator.leftCrop + accumulator.rightCrop,
                     accumulator.topCrop + accumulator.bottomCrop)
    ELSE Returned(OptimizedCropNode(accumulator))

\* return [optimizedCrop, ...otherCommands], or the Error thrown on the way
MergeCrops(optimizedCrop, otherCommands) ==
    IF optimizedCrop.thrown THEN optimizedCrop
    ELSE Returned(<<optimizedCrop.value>> \o otherCommands)

optimizeCrops(cmds, fi) ==
    IF Len(SelectSeq(cmds, LAMBDA cmd : cmd.type = "Crop")) <= 1 THEN Returned(cmds)
    ELSE MergeCrops(
            createOptimizedCropCommand(
                AccumulateAll([leftCrop |-> 0, rightCrop |-> 0, topCrop |-> 0, bottomCrop |-> 0],
                              SelectSeq(cmds, LAMBDA cmd : cmd.type = "Crop")),
                fi),
            SelectSeq(cmds, LAMBDA cmd : cmd.type # "Crop"))

\* `crop=${w}:${h}:${x}:${y}` for integers
CropText(w, h, x, y) ==
    <<"c", "r", "o", "p", "=">> \o Str(w) \o <<":">> \o Str(h) \o <<":">> \o Str(x) \o <<":">> \o Str(y)

\* the same with width and height already text (the iw/ih forms)
CropExpr(w, h, x, y) ==
    <<"c", "r", "o", "p", "=">> \o w \o <<":">> \o h \o <<":">> \o Str(x) \o <<":">> \o Str(y)


\* `iw-${n}` and `ih-${n}`
IwMinus(n) == lit.iw \o <<"-">> \o Str(n)
IhMinus(n) == lit.ih \o <<"-">> \o Str(n)

\* <<outputWidth, outputHeight, xOffset, yOffset>> of the switch over side
\* when the resolution is known
CropBox(side, size, w, h) ==
    CASE side = lit.left -> <<w - size, h, size, 0>>
      [] side = lit.right -> <<w - size, h, 0, 0>>
      [] side = lit.top -> <<w, h - size, 0, size>>
      [] side = lit.bottom -> <<w, h - size, 0, 0>>
      [] side = lit.width -> <<w - size * 2, h, size, 0>>
      [] side = lit.height -> <<w, h - size * 2, 0, size>>
      [] side = lit.each -> <<w - size * 2, h - size * 2, size, size>>
      [] OTHER -> <<w - size, h, 0, 0>>

\* The check of the output dimensions, and the filter
CheckBox(box) ==
    IF box[1] <= 0 \/ box[2] <= 0
    THEN Thrown(<<"I", "n", "v", "a", "l", "i", "d", " ", "c", "r", "o", "p", " ", "d", "i", "m", "e", "n", "s", "i", "o", "n", "s", ":", " ">>
                \o Str(box[1]) \o <<"x">> \o Str(box[2]))
    ELSE Returned(CropText(box[1], box[2], box[3], box[4]))

\* The switch over side when the resolution is not known
CropRelative(side, size) ==
    CASE side = lit.left -> CropExpr(IwMinus(size), lit.ih, size, 0)
      [] side = lit.right -> CropExpr(IwMinus(size), lit.ih, 0, 0)
      [] side = lit.top -> CropExpr(lit.iw, IhMinus(size), 0, size)
      [] side = lit.bottom -> CropExpr(lit.iw, IhMinus(size), 0, 0)
      [] side = lit.width -> CropExpr(IwMinus(size * 2), lit.ih, size, 0)
      [] side = lit.height -> CropExpr(lit.iw, IhMinus(size * 2), 0, size)
      [] side = lit.each -> CropExpr(IwMinus(size * 2), IhMinus(size * 2), size, size)
      [] OTHER -> CropExpr(IwMinus(size), lit.ih, 0, 0)

CropOfSize(size, side, fi) ==
    IF size = 0 THEN Returned(lit.cropdetect)
    ELSE IF HasResolution(fi)
    THEN CheckBox(CropBox(side, size, Dimensions(fi)[1], Dimensions(fi)[2]))
    ELSE Returned(CropRelative(side, size))

buildCropFilter(cropSize, side, fi) == CropOfSize(CropSize(cropSize), side, fi)

buildScaleFilter(width, height, aspectRatio) ==
    IF aspectRatio = lit.preserve
    THEN <<"s", "c", "a", "l", "e", "=">> \o width \o <<":">> \o height
         \o <<":", "f", "o", "r", "c", "e", "_", "o", "r", "i", "g", "i", "n", "a", "l", "_">>
         \o <<"a", "s", "p", "e", "c", "t", "_", "r", "a", "t", "i", "o", "=", "d", "e", "c", "r", "e", "a", "s", "e">>
    ELSE <<"s", "c", "a", "l", "e", "=">> \o width \o <<":">> \o height

centerPosition ==
    <<"x", "=", "(", "w", "-">> \o lit.text_w \o <<")", "/", "2", ":", "y", "=", "(", "h", "-">>
    \o lit.text_h \o <<")", "/", "2">>

\* positions[position] || positions["center"]
positions(position) ==
    CASE position = lit.center -> centerPosition
      [] position = lit.top_left -> <<"x", "=", "1", "0", ":", "y", "=", "1", "0">>
      [] position = lit.top_right ->
            <<"x", "=", "w", "-">> \o lit.text_w \o <<"-", "1", "0", ":", "y", "=", "1", "0">>
      [] position = lit.bottom_left ->
            <<"x", "=", "1", "0", ":", "y", "=", "h", "-">> \o lit.text_h \o <<"-", "1", "0">>
      [] position = lit.bottom_right ->
            <<"x", "=", "w", "-">> \o lit.text_w \o <<"-", "1", "0", ":", "y", "=", "h", "-">>
            \o lit.text_h \o <<"-", "1", "0">>
      [] OTHER -> centerPosition

buildTextOverlayFilter(text, position) ==
    <<"d", "r", "a", "w", "t", "e", "x", "t", "=", "t", "e", "x", "t", "=", "'">>
    \o RemoveAll(text, "\"")
    \o <<"'", ":", "f", "o", "n", "t", "s", "i", "z", "e", "=", "2", "4", ":">>
    \o <<"f", "o", "n", "t", "c", "o", "l", "o", "r", "=", "w", "h", "i", "t", "e", ":">>
    \o positions(position)

\* The branches of buildFadeFilter, durationSecs being duration.replace("s", "")
FadeText(operation, durationSecs) ==
    IF operation = lit.in
    THEN <<"f", "a", "d", "e", "=", "i", "n", ":", "0", ":">> \o durationSecs
    ELSE IF operation = lit.out
    THEN <<"f", "a", "d", "e", "=", "o", "u", "t", ":", "s", "t", "=", "0", ":", "d", "=">> \o durationSecs
    ELSE <<"f", "a", "d", "e", "=">> \o operation \o <<":", "0", ":">> \o durationSecs

buildFadeFilter(operation, duration) ==
    FadeText(operation, ReplaceFirst(duration, <<"s">>, <<>>))

buildContentOverlayFilter(content, contentType) ==
    IF contentType = lit.subtitles
    THEN <<"s", "u", "b", "t", "i", "t", "l", "e", "s", "=">> \o RemoveAll(content, "\"")
    ELSE <<"o", "v", "e", "r", "l", "a", "y", "=">> \o RemoveAll(content, "\"")

\* A filter whose x offset was the right total
OptimizedCropTextFromRight(leftCrop, rightCrop, topCrop, bottomCrop, fi) ==
    IF leftCrop = 0 /\ rightCrop = 0 /\ topCrop = 0 /\ bottomCrop = 0 THEN <<>>
    ELSE IF HasResolution(fi)
    THEN CropText(Dimensions(fi)[1] - leftCrop - rightCrop,
                  Dimensions(fi)[2] - topCrop - bottomCrop, rightCrop, topCrop)
    ELSE CropExpr(IF leftCrop + rightCrop > 0 THEN IwMinus(leftCrop + rightCrop) ELSE lit.iw,
                  IF topCrop + bottomCrop > 0 THEN IhMinus(topCrop + bottomCrop) ELSE lit.ih,
                  rightCrop, topCrop)

\* buildOptimizedCropFilter on the destructured params
OptimizedCropText(leftCrop, rightCrop, topCrop, bottomCrop, fi) ==
    IF leftCrop = 0 /\ rightCrop = 0 /\ topCrop = 0 /\ bottomCrop = 0 THEN <<>>
    ELSE IF HasResolution(fi)
    THEN CropText(Dimensions(fi)[1] - leftCrop - rightCrop,
                  Dimensions(fi)[2] - topCrop - bottomCrop, leftCrop, topCrop)
    ELSE CropExpr(IF leftCrop + rightCrop > 0 THEN IwMinus(leftCrop + rightCrop) ELSE lit.iw,
                  IF topCrop + bottomCrop > 0 THEN IhMinus(topCrop + bottomCrop) ELSE lit.ih,
                  leftCrop, topCrop)

buildOptimizedCropFilter(params, fi) ==
    OptimizedCropText(params.leftCrop, params.rightCrop, params.topCrop, params.bottomCrop, fi)

----------------------------------------------------------------------------
(* ToFfmpeg and processAndReorderCommands (ffmpegCompiler.tsx, 345-504)    *)

\* The media descriptors a compile is given: resolution known or not
FileInfos ==
    { [filename |-> <<"a", ".", "m", "p", "4">>, resolution |-> <<"8", "0", "x", "6", "0">>],
      [filename |-> <<"a", ".", "m", "p", "4">>,
       resolution |-> <<"1", "9", "2", "0", "x", "1", "0", "8", "0">>],
      [filename |-> <<"a", ".", "m", "p", "4">>, resolution |-> undefined],
      [filename |-> undefined, resolution |-> undefined] }

\* `${command.type}` of the one command type whose builder throws
TypeText(type) ==
    CASE type = "Crop" -> lit.crop_type
      [] type = "OptimizedCrop" -> lit.optimized_crop_type

Processed(t, v, o) == [type |-> t, value |-> v, order |-> o]

\* What the catch block of the forEach body pushes
CaughtError(command, message) ==
    Processed("global",
              <<"#", " ", "E", "r", "r", "o", "r", " ", "i", "n", " ">>
              \o TypeText(command.type) \o <<":", " ">> \o message,
              ERROR_ORDER)

\* What one turn of the forEach body adds to processedCommands and videoFilters
NoEffect == [processed |-> <<>>, filters |-> <<>>]
PushCommand(p) == [processed |-> <<p>>, filters |-> <<>>]
PushFilter(f) == [processed |-> <<>>, filters |-> <<f>>]
\* if (filter) videoFilters.push(filter)
PushFilterIfAny(f) == [processed |-> <<>>, filters |-> IF f # <<>> THEN <<f>> ELSE <<>>]

\* case "Crop", cropFilter being what buildCropFilter returned or threw
CropEffect(command, cropFilter) ==
    IF cropFilter.thrown
    THEN PushCommand(CaughtError(command, cropFilter.message))
    ELSE PushFilterIfAny(cropFilter.value)

\* The switch over command.type for one command
CommandEffect(command, fi) ==
    CASE command.type = "Trim" ->
            PushCommand(Processed("input",
                                  <<"-", "s", "s", " ">> \o command.params.start
                                  \o <<" ", "-", "t", "o", " ">> \o command.params.end,
                                  COMMAND_ORDER.input_trim))
      [] command.type = "Crop" ->
            CropEffect(command,
                       buildCropFilter(command.params.cropSize, command.params.side, fi))
      [] command.type = "OptimizedCrop" ->
            PushFilterIfAny(buildOptimizedCropFilter(command.params, fi))
      [] command.type = "Scale" ->
            PushFilter(buildScaleFilter(command.params.width, command.params.height,
                                        command.params.aspectRatio))
      [] command.type = "TextOverlay" ->
            PushFilter(buildTextOverlayFilter(command.params.text, command.params.position))
      [] command.type = "Fade" ->
            PushFilter(buildFadeFilter(command.params.operation, command.params.duration))
      [] command.type = "ContentOverlay" ->
            PushFilter(buildContentOverlayFilter(command.params.content,
                                                 command.params.contentType))
      [] command.type = "Compress" ->
            IF command.params.bucket = lit.video
            THEN PushCommand(Processed("output", <<"-", "c", "r", "f", " ", "2", "3">>,
                                       COMMAND_ORDER.output_codec))
            ELSE NoEffect
      [] command.type = "Convert" ->
            PushCommand(Processed("output", <<"-", "f", " ">> \o command.params.outputFormat,
                                  COMMAND_ORDER.output_format))
      [] OTHER -> NoEffect

\* processedCommands.sort((a, b) => a.order - b.order): a stable sort
RECURSIVE InsertByOrder(_, _)
InsertByOrder(sorted, p) ==
    IF sorted = <<>> THEN <<p>>
    ELSE IF sorted[Len(sorted)].order <= p.order THEN Append(sorted, p)
    ELSE Append(InsertByOrder(SubSeq(sorted, 1, Len(sorted) - 1), p), sorted[Len(sorted)])

RECURSIVE SortByOrder(_)
SortByOrder(ps) ==
    IF ps = <<>> THEN <<>>
    ELSE InsertByOrder(SortByOrder(SubSeq(ps, 1, Len(ps) - 1)), ps[Len(ps)])

Values(ps) == [n \in 1..Len(ps) |-> ps[n].value]

\* One -vf entry and one -af entry for each filter
SeparateFilters(vfs, afs) ==
    [n \in 1..Len(vfs) |->
        Processed("video-filter", <<"-", "v", "f", " ", "\"">> \o vfs[n] \o <<"\"">>,
                  COMMAND_ORDER.video_filter)]
    \o [n \in 1..Len(afs) |->
        Processed("audio-filter", <<"-", "a", "f", " ", "\"">> \o afs[n] \o <<"\"">>,
                  COMMAND_ORDER.audio_filter)]

\* The entries pushed for the combined filters
CombinedFilters(vfs, afs) ==
    (IF Len(vfs) > 0
     THEN <<Processed("video-filter",
                      <<"-", "v", "f", " ", "\"">> \o Join(vfs, <<",">>) \o <<"\"">>,
                      COMMAND_ORDER.video_filter)>>
     ELSE <<>>)
    \o (IF Len(afs) > 0
        THEN <<Processed("audio-filter",
                         <<"-", "a", "f", " ", "\"">> \o Join(afs, <<",">>) \o <<"\"">>,
                         COMMAND_ORDER.audio_filter)>>
        ELSE <<>>)

\* processedCommands with the combined filters pushed and no sort
WithFiltersUnsorted(ps, vfs, afs) == ps \o CombinedFilters(vfs, afs)

\* processedCommands once the combined filters are pushed and the list sorted
WithFilters(ps, vfs, afs) == SortByOrder(ps \o CombinedFilters(vfs, afs))

\* fileInfo.input?.filename || "input.mp4"
Filename(fi) ==
    IF fi.filename # undefined /\ fi.filename # <<>>
    THEN fi.filename ELSE <<"i", "n", "p", "u", "t", ".", "m", "p", "4">>

\* `${inputArgs} -i ${fileInfo.input?.filename || "input.mp4"} ${outputArgs}`.trim()
FinalCommand(sorted, fi) ==
    StrTrim(Join(Values(SelectSeq(sorted, LAMBDA cmd : cmd.type = "input")), <<" ">>)
            \o <<" ", "-", "i", " ">> \o Filename(fi) \o <<" ">>
            \o Join(Values(SelectSeq(sorted, LAMBDA cmd : cmd.type # "input")), <<" ">>))

\* processAndReorderCommands after optimizeCrops returned or threw; an Error
\* thrown there is caught by translateToFfmpeg
AfterOptimize(optimized) ==
    IF optimized.thrown
    THEN /\ output' = <<"#", " ", "E", "r", "r", "o", "r", ":", " ">> \o optimized.message
         /\ pc' = "done"
         /\ optimizedCommands' = <<>>
    ELSE /\ output' = undefined
         /\ pc' = "compiling"
         /\ optimizedCommands' = optimized.value

\* ToFfmpeg calls processAndReorderCommands, which first optimizes the crops
CompileStart ==
    /\ pc = "parsed"
    /\ \E fi \in FileInfos :
          /\ fileInfo' = fi
          /\ AfterOptimize(optimizeCrops(commands, fi))
    /\ k' = 0
    /\ processedCommands' = <<>>
    /\ videoFilters' = <<>>
    /\ audioFilters' = <<>>
    /\ UNCHANGED input
    /\ UNCHANGED parserVars
    /\ UNCHANGED sessionVars

ApplyEffect(effect) ==
    /\ processedCommands' = processedCommands \o effect.processed
    /\ videoFilters' = videoFilters \o effect.filters

\* One turn of optimizedCommands.forEach((command) => { try { switch ... } })
CompileCommand ==
    /\ pc = "compiling"
    /\ k < Len(optimizedCommands)
    /\ ApplyEffect(CommandEffect(optimizedCommands[k + 1], fileInfo))
    /\ k' = k + 1
    /\ UNCHANGED <<input, fileInfo, pc, optimizedCommands, audioFilters, output>>
    /\ UNCHANGED parserVars
    /\ UNCHANGED sessionVars

\* The combined filters are pushed, the list is sorted and the command built
CompileAssemble ==
    /\ pc = "compiling"
    /\ k = Len(optimizedCommands)
    /\ processedCommands' = WithFilters(processedCommands, videoFilters, audioFilters)
    /\ output' = FinalCommand(processedCommands', fileInfo)
    /\ pc' = "done"
    /\ UNCHANGED <<input, fileInfo, optimizedCommands, k, videoFilters, audioFilters>>
    /\ UNCHANGED parserVars
    /\ UNCHANGED sessionVars

----------------------------------------------------------------------------
(* The editor (editor/page.tsx): handleInput and handleFileSelect; the     *)
(* variable input is the editor's code, parsed again after each change     *)

isCommentLine(line) == StrTrim(line) # <<>> /\ Head(StrTrim(line)) = "#"

\* s from its first white space on
RECURSIVE SkipWord(_)
SkipWord(s) ==
    IF s # <<>> /\ Head(s) \notin WhiteSpace THEN SkipWord(Tail(s)) ELSE s

\* s.split(/\s+/) for a trimmed s
RECURSIVE SplitWhite(_)
SplitWhite(s) ==
    IF \A p \in 1..Len(s) : s[p] \notin WhiteSpace THEN <<s>>
    ELSE <<SubSeq(s, 1, Len(s) - Len(SkipWord(s)))>>
            \o SplitWhite(SkipWhiteSpace(SkipWord(s)))

\* The end of shouldTriggerFileSelector, ws being the words of the current line
TriggerOf(ws) ==
    IF Len(ws) >= 2 /\ ws[Len(ws) - 1] = lit.input /\ ws[Len(ws)] = <<"/">>
    THEN "input"
    ELSE IF /\ Len(ws) >= 3
            /\ ws[Len(ws) - 2] = lit.burn
            /\ ws[Len(ws) - 1] = lit.subtitles
            /\ ws[Len(ws)] = <<"/">>
    THEN "subtitle"
    ELSE "null"

\* The type of shouldTriggerFileSelector(value, cursorPosition), "null" when
\* shouldTrigger is false; line is the last line before the cursor
TriggerOnLine(line) ==
    IF isCommentLine(line) THEN "null" ELSE TriggerOf(SplitWhite(StrTrim(line)))

shouldTriggerFileSelector(value, cursorPosition) ==
    TriggerOnLine(Split(SubSeq(value, 1, cursorPosition), "\n")[
                    Len(Split(SubSeq(value, 1, cursorPosition), "\n"))])

hasExistingInput == \E n \in 1..Len(commands) : commands[n].type = "Input"

commentLine ==
    <<"#", " ", "T", "o", " ", "s", "e", "l", "e", "c", "t", " ", "a", " ", "d", "i",
    "f", "f", "e", "r", "e", "n", "t", " ", "f", "i", "l", "e", ",", " ", "d", "e",
    "l", "e", "t", "e", " ", "t", "h", "e", " ", "l", "i", "n", "e", " ", "a", "b",
    "o", "v", "e", " ", "a", "n", "d", " ", "t", "y", "p", "e", " ", "\"", "i",
    "n", "p", "u", "t", " ", "/", "\"">>

\* The second loop of handleExistingInputConflict: newLines
RECURSIVE ConflictLines(_, _)
ConflictLines(lines, addedComment) ==
    IF lines = <<>> THEN <<>>
    ELSE IF /\ MatchAt(StrTrim(Head(lines)), 1, lit.input)
            /\ Len(StrTrim(Head(lines))) > Len(lit.input)
            /\ StrTrim(Head(lines))[Len(lit.input) + 1] \in WhiteSpace
            /\ ~isCommentLine(Head(lines))
            /\ ~addedComment
    THEN <<Head(lines), commentLine>> \o ConflictLines(Tail(lines), TRUE)
    ELSE IF StrTrim(Head(lines)) = lit.input \o <<" ", "/">>
    THEN ConflictLines(Tail(lines), addedComment)
    ELSE <<Head(lines)>> \o ConflictLines(Tail(lines), addedComment)

\* newCode of handleExistingInputConflict(code, cursorPosition)
handleExistingInputConflict(value) ==
    Join(ConflictLines(Split(value, "\n"), FALSE), <<"\n">>)

\* The position after the word w at p of line and the white space that must
\* follow it (w\s+), 0 when they are not there
AfterWord(line, p, w) ==
    IF /\ MatchAt(line, p, w)
       /\ p + Len(w) <= Len(line)
       /\ line[p + Len(w)] \in WhiteSpace
    THEN Len(line) + 1 - Len(SkipWhiteSpace(SubSeq(line, p + Len(w), Len(line))))
    ELSE 0

\* The last position of \/(?:\s|$) at r, 0 when it does not match there
SlashEnd(line, r) ==
    IF r = 0 \/ r > Len(line) \/ line[r] # "/" THEN 0
    ELSE IF r = Len(line) THEN r
    ELSE IF line[r + 1] \in WhiteSpace THEN r + 1
    ELSE 0

\* The last position of the match of FILE_SELECTOR_CONFIGS[type].pattern that
\* starts at p, 0 when none starts there
PatternEnd(type, line, p) ==
    IF type = "input" THEN SlashEnd(line, AfterWord(line, p, lit.input))
    ELSE SlashEnd(line, AfterWord(line, AfterWord(line, p, lit.burn), lit.subtitles))

\* targetLine.search(config.pattern) as a 1-based position, 0 for no match
MatchStart(type, line) ==
    IF \E p \in 1..Len(line) : PatternEnd(type, line, p) # 0
    THEN CHOOSE p \in 1..Len(line) :
            /\ PatternEnd(type, line, p) # 0
            /\ \A q \in 1..(p - 1) : PatternEnd(type, line, q) = 0
    ELSE 0

\* findTargetLine as a 1-based index, 0 for -1
findTargetLine(lines, type) ==
    IF \E n \in 1..Len(lines) : ~isCommentLine(lines[n]) /\ MatchStart(type, lines[n]) # 0
    THEN CHOOSE n \in 1..Len(lines) :
            /\ ~isCommentLine(lines[n]) /\ MatchStart(type, lines[n]) # 0
            /\ \A m \in 1..(n - 1) :
                    isCommentLine(lines[m]) \/ MatchStart(type, lines[m]) = 0
    ELSE 0

\* targetLine.replace(config.pattern, config.replacement(filename)), the match
\* starting at p
ReplaceMatch(type, line, filename, p) ==
    SubSeq(line, 1, p - 1)
        \o (IF type = "input" THEN lit.input \o <<" ">> \o filename
            ELSE lit.burn \o <<" ">> \o lit.subtitles \o <<" ", "\"">> \o filename
                    \o <<"\"">>)
        \o SubSeq(line, PatternEnd(type, line, p) + 1, Len(line))

\* newCode of performReplacement, the code itself when success is false
performReplacement(value, type, filename) ==
    Join([n \in 1..Len(Split(value, "\n")) |->
            IF n = findTargetLine(Split(value, "\n"), type)
            THEN ReplaceMatch(type, Split(value, "\n")[n], filename,
                              MatchStart(type, Split(value, "\n")[n]))
            ELSE Split(value, "\n")[n]], <<"\n">>)

\* What handleInput does with the value, trigger being the result of
\* shouldTriggerFileSelector
AfterInput(value, trigger) ==
    IF hasExistingInput /\ trigger = "input"
    THEN /\ input' = handleExistingInputConflict(value)
         /\ UNCHANGED fileSelectorType
    ELSE /\ input' = value
         /\ fileSelectorType' = IF trigger # "null" THEN trigger ELSE fileSelectorType

\* The run that an input event ends
LastRun ==
    [done |-> pc = "done", input |-> input, fileInfo |-> fileInfo,
     commands |-> commands, errors |-> errors, parsedCommands |-> parsedCommands,
     output |-> output]

\* handleInput: the textarea holds value, the cursor is at its end or after a
\* "/"; the effect on [code] then runs the parser again
HandleInput ==
    /\ pc \in {"parsed", "done"}
    /\ events > 0 \/ input \in EditorTexts
    /\ events < MaxEvents
    /\ \E value \in EditorTexts :
          \E cursorPosition \in {Len(value)}
                                  \cup {p \in 1..Len(value) : value[p] = "/"} :
              AfterInput(value, shouldTriggerFileSelector(value, cursorPosition))
    /\ events' = events + 1
    /\ previous' = LastRun
    /\ pc' = "start"
    /\ UNCHANGED <<fileInfo, page, pending>>
    /\ UNCHANGED toolVars
    /\ UNCHANGED parserVars
    /\ UNCHANGED compilerVars

\* if (result.success) setCode(result.newCode), result being
\* performReplacement(code, ...) over the code of the render in which
\* handleFileSelect was called
SetReplaced(codeAtCall, newCode) ==
    IF newCode = codeAtCall
    THEN UNCHANGED <<input, pc, previous>>
    ELSE /\ input' = newCode
         /\ pc' = "start"
         /\ previous' = LastRun

\* handleFileSelect up to its first await: no file (undefined, the dialog
\* cancelled) returns; the type "input" waits for probeFile(file), holding the
\* code, the type and the file of the call; any other type replaces at once
HandleFileSelect ==
    /\ pc \in {"parsed", "done"}
    /\ fileSelectorType # "null"
    /\ pending = <<>>
    /\ \E file \in {<<"b", ".", "m", "p", "4">>, undefined} :
          IF file = undefined
          THEN UNCHANGED <<input, pc, previous, fileSelectorType, pending>>
          ELSE IF fileSelectorType = "input"
          THEN /\ pending' = <<[code |-> input, type |-> fileSelectorType, file |-> file]>>
               /\ UNCHANGED <<input, pc, previous, fileSelectorType>>
          ELSE /\ SetReplaced(input, performReplacement(input, fileSelectorType, file))
               /\ fileSelectorType' = "null"
               /\ UNCHANGED pending
    /\ UNCHANGED <<fileInfo, events, page>>
    /\ UNCHANGED toolVars
    /\ UNCHANGED parserVars
    /\ UNCHANGED compilerVars

\* The rest of handleFileSelect once probeFile has settled: it rejected (the
\* catch block), or it resolved (setFileInfo, then the replacement); the
\* finally block in both cases
ProbeSettled ==
    /\ pc \in {"parsed", "done"}
    /\ pending # <<>>
    /\ \/ UNCHANGED <<input, fileInfo, pc, previous>>
       \/ /\ fileInfo' \in FileInfos
          /\ SetReplaced(pending[1].code,
                         performReplacement(pending[1].code, pending[1].type,
                                            pending[1].file))
    /\ fileSelectorType' = "null"
    /\ pending' = <<>>
    /\ UNCHANGED <<events, page>>
    /\ UNCHANGED toolVars
    /\ UNCHANGED parserVars
    /\ UNCHANGED compilerVars

----------------------------------------------------------------------------
(* The Parser page (parser/page.tsx, 1-191): its own trim pattern, its     *)
(* own validateCommandPatterns and three arrays at module level            *)

\* validateCommandPatterns("trim", args) of the page: the positions count from
\* args[0], a token that does not validate gives lastIndex 0
PageValidate(args) ==
    IF args[1] # lit.from
    THEN Failure(0, <<"Invalid command arguments", lit.trim, args[1]>>)
    ELSE IF ~RegexTest("time", args[2])
    THEN Failure(0, <<"Invalid command arguments", lit.trim, args[2]>>)
    ELSE IF args[3] # lit.to
    THEN Failure(0, <<"Invalid command arguments", lit.trim, args[3]>>)
    ELSE IF ~RegexTest("time", args[4])
    THEN Failure(0, <<"Invalid command arguments", lit.trim, args[4]>>)
    ELSE IF ~validateTrimParams(args[2], args[4])
    THEN Failure(Len(args) - 1, <<"Params didn't validate", Join(args, <<" ">>)>>)
    ELSE Success(Len(args) - 1,
                 [type |-> "Trim", params |-> [start |-> args[2], end |-> args[4]]],
                 Join(args, <<" ">>))

\* The loop of Parser over words from the 0-based index idx; arrays holds the
\* module-level commands, errors and parsedCommands
RECURSIVE PageLoop(_, _, _)
RECURSIVE PageBlock(_, _, _, _)
PageLoop(ws, idx, arrays) ==
    IF idx >= Len(ws) THEN arrays
    ELSE IF ws[idx + 1] = lit.trim /\ Len(ws) > 5
    THEN PageBlock(ws, idx, arrays,
                   PageValidate([j \in 1..4 |-> IF idx + 1 + j <= Len(ws)
                                                THEN ws[idx + 1 + j] ELSE undefined]))
    ELSE PageLoop(ws, idx + 1, arrays)

PageBlock(ws, idx, arrays, result) ==
    PageLoop(ws, idx + result.lastIndex + 1,
             IF ~result.success
             THEN [arrays EXCEPT !.errors = Append(@, result.error)]
             ELSE [arrays EXCEPT !.commands = Append(@, result.node),
                                 !.parsedCommands = Append(@, result.source)])

\* One render of the Parser component
PageRender ==
    /\ pc = "start"
    /\ input = code
    /\ page.renders < MaxRenders
    /\ page' = [PageLoop(MatchPattern(code, 1), 0, page) EXCEPT !.renders = @ + 1]
    /\ UNCHANGED <<input, fileInfo, pc, events, fileSelectorType, previous, pending>>
    /\ UNCHANGED toolVars
    /\ UNCHANGED parserVars
    /\ UNCHANGED compilerVars

----------------------------------------------------------------------------
(* The highlighter of the editor (editor/page.tsx): tokenize               *)

MaxChars == 4       \* characters of a text handed to the tokenizer

\* [a-zA-Z_]
Letters ==
    {"a", "b", "c", "d", "e", "f", "g", "h", "i", "j", "k", "l", "m", "n", "o", "p",
     "q", "r", "s", "t", "u", "v", "w", "x", "y", "z", "_"}
        \cup {c \in {"A", "B", "C", "D", "E", "F", "G", "H", "I", "J", "K", "L", "M", "N",
                     "O", "P", "Q", "R", "S", "T", "U", "V", "W", "X", "Y", "Z"} : TRUE}

KEYWORDS == {commandPatterns[n].name : n \in 1..Len(commandPatterns)}

OPERATOR ==
    {lit.from, lit.to, lit.preserve, lit.ignore, lit.aspect, lit.ratio, lit.in, lit.out,
     <<"i", "n", "/", "o", "u", "t">>, lit.for, lit.at, lit.every}

POSITION ==
    {<<"t", "o", "p", "-", "l", "e", "f", "t">>, <<"t", "o", "p", "-", "r", "i", "g", "h", "t">>,
     <<"b", "o", "t", "t", "o", "m", "-", "l", "e", "f", "t">>,
     <<"b", "o", "t", "t", "o", "m", "-", "r", "i", "g", "h", "t">>, lit.center}

ALIGMENT == {lit.left, lit.right, lit.center, lit.top, lit.bottom}

UNIT == {lit.px, <<"s", "e", "c", "o", "n", "d">>, <<"t", "i", "m", "e", "c", "o", "d", "e">>,
         <<"d", "B">>}

\* /\.(mp4|avi|mov|mkv|webm|mp3|wav|flac|aac|jpg|jpeg|png|gif|srt|ass|vtt)$/i
fileExtensionPattern(value) ==
    \E ext \in {lit.mp4, <<"a", "v", "i">>, <<"m", "o", "v">>, <<"m", "k", "v">>,
                <<"w", "e", "b", "m">>, <<"m", "p", "3">>, <<"w", "a", "v">>,
                <<"f", "l", "a", "c">>, <<"a", "a", "c">>, <<"j", "p", "g">>,
                <<"j", "p", "e", "g">>, <<"p", "n", "g">>, <<"g", "i", "f">>,
                <<"s", "r", "t">>, <<"a", "s", "s">>, <<"v", "t", "t">>} :
        EndsWith(Lower(value), <<".">> \o ext)

\* The type of a token that starts with a letter, in the priority order of
\* the source
WordType(value) ==
    IF fileExtensionPattern(value) THEN "FILEPATH"
    ELSE IF Lower(value) \in KEYWORDS THEN "KEYWORD"
    ELSE IF Lower(value) \in OPERATOR THEN "OPERATOR"
    ELSE IF Lower(value) \in POSITION THEN "POSITION"
    ELSE IF Lower(value) \in ALIGMENT THEN "ALIGMENT"
    ELSE IF Lower(value) \in UNIT THEN "UNIT"
    ELSE "NONE"

\* while (current < code.length && <code[current] in chars>) current++
RECURSIVE WhileIn(_, _, _)
WhileIn(text, current, chars) ==
    IF current < Len(text) /\ text[current + 1] \in chars
    THEN WhileIn(text, current + 1, chars)
    ELSE current

\* while (current < code.length && code[current] !== stop) current++
RECURSIVE WhileNot(_, _, _)
WhileNot(text, current, stop) ==
    IF current < Len(text) /\ text[current + 1] # stop
    THEN WhileNot(text, current + 1, stop)
    ELSE current

\* A closing quote added whether or not the text holds one
ClosingQuoteAlways(text, current) == <<"\"">>

\* if (current < code.length) { value += '"'; current++; }: what is added to
\* value
ClosingQuote(text, current) == IF current < Len(text) THEN <<"\"">> ELSE <<>>

\* tokenize from the 0-based index current on; tokens.push of value, the
\* cursor being at end, and `continue`
RECURSIVE Scan(_, _, _, _, _)
Push(text, end, type, value, line, startPosition, toks) ==
    Scan(text, end, line, startPosition,
         Append(toks, [type |-> type, value |-> value, line |-> line,
                       startPosition |-> startPosition]))

\* The string branch, closing being what the test after the loop adds
PushString(text, current, end, closing, line, startPosition, toks) ==
    Push(text, end + Len(closing), "STRING",
         <<"\"">> \o SubSeq(text, current + 2, end) \o closing, line, startPosition, toks)

\* The branch of a token that starts with a letter
PushWord(text, end, value, line, startPosition, toks) ==
    Push(text, end, WordType(value), value, line, startPosition, toks)

\* The branches of the loop body after the line tracking
Branch(text, current, line, startPosition, toks) ==
    IF text[current + 1] \in WhiteSpace
    THEN Push(text, WhileIn(text, current, WhiteSpace), "WHITESPACE",
              SubSeq(text, current + 1, WhileIn(text, current, WhiteSpace)),
              line, startPosition, toks)
    ELSE IF text[current + 1] = "#"
    THEN Push(text, WhileNot(text, current + 1, "\n"), "COMMENT",
              <<"#">> \o SubSeq(text, current + 2, WhileNot(text, current + 1, "\n")),
              line, startPosition, toks)
    ELSE IF text[current + 1] = "\""
    THEN PushString(text, current, WhileNot(text, current + 1, "\""),
                    ClosingQuote(text, WhileNot(text, current + 1, "\"")),
                    line, startPosition, toks)
    ELSE IF text[current + 1] \in Letters
    THEN PushWord(text, WhileIn(text, current, Letters \cup Digits \cup {"-", "."}),
                  SubSeq(text, current + 1,
                         WhileIn(text, current, Letters \cup Digits \cup {"-", "."})),
                  line, startPosition, toks)
    ELSE IF text[current + 1] = ";"
    THEN Push(text, current + 1, "SEPARATOR", <<text[current + 1]>>, line, startPosition, toks)
    ELSE Push(text, current + 1, "NONE", <<text[current + 1]>>, line, startPosition, toks)

Scan(text, current, line, startPosition, toks) ==
    IF current >= Len(text) THEN toks
    ELSE IF text[current + 1] = "\n"
    THEN Branch(text, current, line + 1, current + 1, toks)
    ELSE Branch(text, current, line, startPosition, toks)

tokenize(text) == Scan(text, 0, 1, 0, <<>>)

\* The characters of the texts handed to the tokenizer: a word of two
\* letters that is an operator, white space with and without a line break,
\* and the characters that start a comment, a string, a separator and a
\* token of one character
RECURSIVE Texts(_)
Texts(n) ==
    IF n = 0 THEN {<<>>}
    ELSE Texts(n - 1) \cup {Append(t, c) : t \in Texts(n - 1),
                            c \in {"t", "o", " ", "\n", "#", "\"", ";", "1"}}

\* SyntaxHighlighter({ code, errors }): const tokens = tokenize(code)
SyntaxHighlighter ==
    /\ pc = "start"
    /\ tokens' = tokenize(input)
    /\ UNCHANGED <<input, fileInfo, pc, events, fileSelectorType, previous, page, pending,
                   ffmpeg, calls>>
    /\ UNCHANGED parserVars
    /\ UNCHANGED compilerVars

HighlighterInit == input \in Texts(MaxChars) /\ Blank

HighlighterSpec == HighlighterInit /\ [][SyntaxHighlighter]_vars

----------------------------------------------------------------------------
(* loadFFmpeg (editor/ffmpeg.js 477-492, editor/ffprobe.js 8-25)           *)

MaxCalls == 4       \* calls of loadFFmpeg

\* A call of loadFFmpeg of module m up to its first await or its return. The
\* FFmpeg made by the n-th call is instance n, null is 0. `if (ffmpeg) return
\* ffmpeg` resolves the call with the instance of the module; otherwise the
\* instance is made and stored, and the call waits for ffmpeg.load
LoadFFmpeg ==
    /\ Len(calls) < MaxCalls
    /\ \E m \in Modules :
          IF ffmpeg[m] # 0
          THEN /\ calls' = Append(calls, [module |-> m, made |-> FALSE, at |-> "resolved",
                                          value |-> ffmpeg[m]])
               /\ UNCHANGED ffmpeg
          ELSE /\ ffmpeg' = [ffmpeg EXCEPT ![m] = Len(calls) + 1]
               /\ calls' = Append(calls, [module |-> m, made |-> TRUE, at |-> "loading",
                                          value |-> 0])
    /\ UNCHANGED <<input, fileInfo, pc, events, fileSelectorType, previous, page, pending,
                   tokens>>
    /\ UNCHANGED parserVars
    /\ UNCHANGED compilerVars

\* ffmpeg.load settles: `return ffmpeg` after it resolved, `throw new
\* Error("Failed to load FFmpeg")` after it rejected
LoadSettled ==
    /\ \E c \in 1..Len(calls) :
          /\ calls[c].at = "loading"
          /\ \/ calls' = [calls EXCEPT ![c].at = "resolved",
                                       ![c].value = ffmpeg[calls[c].module]]
             \/ calls' = [calls EXCEPT ![c].at = "rejected"]
    /\ UNCHANGED <<input, fileInfo, pc, events, fileSelectorType, previous, page, pending,
                   tokens, ffmpeg>>
    /\ UNCHANGED parserVars
    /\ UNCHANGED compilerVars

LoaderInit == input = code /\ Blank

LoaderNext == LoadFFmpeg \/ LoadSettled

LoaderSpec == LoaderInit /\ [][LoaderNext]_vars

Next ==
    \/ ParserStart
    \/ ParserComment
    \/ ParserDispatch
    \/ ParserAdvance
    \/ ParserReturn
    \/ CompileStart
    \/ CompileCommand
    \/ CompileAssemble
    \/ HandleInput
    \/ HandleFileSelect
    \/ ProbeSettled
    \/ PageRender

Spec == Init /\ [][Next]_vars

----------------------------------------------------------------------------
(* Properties of the parser                                                *)

\* xs' is xs with exactly one element appended
OneMore(xs, ys) == Len(ys) = Len(xs) + 1 /\ SubSeq(ys, 1, Len(xs)) = xs

\* C1: every directive dispatched by parser(), that is every block of the chain
\* entered for the keyword under the cursor, adds exactly one node to commands
\* or exactly one text to errors, never both and never neither.
C1_OneNodeOrOneError ==
    [][ParserDispatch =>
          \/ OneMore(commands, commands') /\ errors' = errors
          \/ OneMore(errors, errors') /\ commands' = commands]_vars

\* C1 witness: a parse is over in which one dispatched directive gave a node
\* and another gave an error
C1_Witness ==
    /\ pc = "parsed"
    /\ Len(errors) >= 1
    /\ \E n \in 1..Len(commands) : commands[n].type # "Comment"

\* The cursor is on a whole `remove_frames every <N>` directive
AtRemoveFrames ==
    /\ HasWord /\ Word = lit.remove_frames
    /\ i + 2 < Len(words)
    /\ words[i + 2] = lit.every

\* The cycles of the directive texts that are integers from 2 to 30, read by hand
CycleInRange(c) == c \in {<<"2">>, <<"4">>, <<"3", "0">>, <<"0", "4">>}

\* C2 as stated: a `remove_frames every <N>` directive whose N is below 2, above
\* 30 or not a number gives one error and no Deduplicate node.
C2_OutOfRangeFails ==
    [][ParserDispatch /\ AtRemoveFrames /\ ~CycleInRange(words[i + 3]) =>
          /\ ~lastResult'.success
          /\ OneMore(errors, errors')
          /\ commands' = commands]_vars

\* The cursor is on a whole `trim from <start> to <end>` directive
AtTrim ==
    /\ HasWord /\ Word = lit.trim
    /\ i + 4 < Len(words)
    /\ words[i + 2] = lit.from
    /\ words[i + 4] = lit.to

\* The times of the directive texts read by hand: their tenths of a second, -1
\* for a time that is not well-formed (seconds or minutes of 60 or more, hours
\* of 24 or more, or not of the shape [[H:]M:]S[.f])
Tenths(t) ==
    CASE t = <<"5">> -> 50
      [] t = <<"1", "0">> -> 100
      [] t = <<"2", "0">> -> 200
      [] t = <<"6", "0">> -> -1
      [] t = <<"1", ":", "3", "0">> -> 900
      [] t = <<"3", ":", "4", "5">> -> 2250
      [] t = <<"0", ":", "1", "0">> -> 100
      [] t = <<"1", ":", "6", "0">> -> -1
      [] t = <<"1", "0", ".", "5">> -> 105
      [] t = <<"2", "3", ":", "5", "9", ":", "5", "9">> -> 863990
      [] t = <<"2", "4", ":", "0", "0", ":", "0", "0">> -> -1
      [] t = <<"1", "0", "0">> -> -1
      [] t = <<"a", "b", "c">> -> -1
      [] t = <<"1", ":", "2", ":", "3", ":", "4">> -> -1
      [] t = <<"2", "0", ";">> -> -1
      [] t = <<"1", "0", ":", "3", "0">> -> 6300
      [] t = <<"1", "2", ":", "3", "0">> -> 7500
      [] t = <<"0", "0", ":", "1", "0", ".", "0", "0">> -> 100
      [] t = <<"0", "0", ":", "0", "0", ":", "2", "0", ".", "0", "0">> -> 200

TrimAccepted(start, end) ==
    Tenths(start) >= 0 /\ Tenths(end) >= 0 /\ Tenths(end) > Tenths(start)

\* C3: a `trim from <start> to <end>` directive gives a Trim node holding the two
\* times as written if and only if both times are well-formed and the end, in
\* seconds, is strictly greater than the start; otherwise it gives one error
\* and no node.
C3_TrimIffOrdered ==
    [][ParserDispatch /\ AtTrim =>
          IF TrimAccepted(words[i + 3], words[i + 5])
          THEN /\ OneMore(commands, commands')
               /\ errors' = errors
               /\ commands'[Len(commands')] =
                      [type |-> "Trim",
                       params |-> [start |-> words[i + 3], end |-> words[i + 5]]]
          ELSE /\ OneMore(errors, errors')
               /\ commands' = commands]_vars

\* C3 witness: `trim from 1:30 to 3:45` has been parsed into its Trim node
\* without an error
C3_Witness ==
    /\ pc = "parsed"
    /\ errors = <<>>
    /\ commands = <<[type |-> "Trim",
                     params |-> [start |-> <<"1", ":", "3", "0">>,
                                 end |-> <<"3", ":", "4", "5">>]]>>
----------------------------------------------------------------------------
(* Properties of the crop optimizer                                        *)

\* The pixel counts of the crop sizes of the directive texts, read by hand
Pixels(cropSize) ==
    CASE cropSize = <<"0", "p", "x">> -> 0
      [] cropSize = <<"-", "1", "0", "p", "x">> -> 0 - 10
      [] cropSize = <<"1", "0", "p", "x">> -> 10
      [] cropSize = <<"3", "0", "p", "x">> -> 30
      [] cropSize = <<"5", "0", "p", "x">> -> 50
      [] cropSize = <<"1", "0", "0", "p", "x">> -> 100

\* The sides that add to each edge
LeftSides == {lit.left, lit.width, lit.each}
RightSides == {lit.right, lit.width, lit.each}
TopSides == {lit.top, lit.height, lit.each}
BottomSides == {lit.bottom, lit.height, lit.each}

\* The pixels the Crop nodes of cmds take from the edge the sides add to
RECURSIVE EdgeTotal(_, _)
EdgeTotal(cmds, sides) ==
    IF cmds = <<>> THEN 0
    ELSE (IF Head(cmds).type = "Crop" /\ Head(cmds).params.side \in sides
          THEN Pixels(Head(cmds).params.cropSize) ELSE 0)
         + EdgeTotal(Tail(cmds), sides)

NumCrops(cmds) == Cardinality({n \in 1..Len(cmds) : cmds[n].type = "Crop"})
WithoutCrops(cmds) == SelectSeq(cmds, LAMBDA cmd : cmd.type # "Crop")

----------------------------------------------------------------------------
(* Properties of the compiled command                                      *)

\* The known width and height of the media descriptors, read by hand
KnownWidth == IF fileInfo.resolution = <<"8", "0", "x", "6", "0">> THEN 80 ELSE 1920
KnownHeight == IF fileInfo.resolution = <<"8", "0", "x", "6", "0">> THEN 60 ELSE 1080
ResolutionKnown == fileInfo.resolution # undefined

Positions(s, sub) == {p \in 1..Len(s) : MatchAt(s, p, sub)}
Occurrences(s, sub) == Cardinality(Positions(s, sub))

HorizontalTotal == EdgeTotal(commands, LeftSides) + EdgeTotal(commands, RightSides)
VerticalTotal == EdgeTotal(commands, TopSides) + EdgeTotal(commands, BottomSides)

\* crop=(W-L-R):(H-T-B):L:T
MergedCropText ==
    <<"c", "r", "o", "p", "=">> \o Str(KnownWidth - HorizontalTotal) \o <<":">>
    \o Str(KnownHeight - VerticalTotal) \o <<":">>
    \o Str(EdgeTotal(commands, LeftSides)) \o <<":">> \o Str(EdgeTotal(commands, TopSides))

\* The compiled command holds the merged crop filter and no other crop filter
OneMergedCrop ==
    /\ Contains(output, MergedCropText)
    /\ Occurrences(output, <<"c", "r", "o", "p", "=">>) = 1

\* A compile is over for two or more crops whose totals stay below the known
\* dimensions
CropsWithinKnownSize ==
    /\ pc = "done"
    /\ ResolutionKnown
    /\ NumCrops(commands) >= 2
    /\ HorizontalTotal < KnownWidth
    /\ VerticalTotal < KnownHeight

FatalText(edge, total, size) ==
    <<"#", " ", "E", "r", "r", "o", "r", ":", " ", "T", "o", "t", "a", "l", " ">> \o edge
    \o <<" ", "c", "r", "o", "p", " ", "(">> \o Str(total)
    \o <<"p", "x", ")", " ", "e", "x", "c", "e", "e", "d", "s", " ", "v", "i", "d", "e", "o", " ">>
    \o edge \o <<" ", "(">> \o Str(size) \o <<"p", "x", ")">>

\* The fatal texts of the totals that reach their known dimension
FatalTexts ==
    (IF HorizontalTotal >= KnownWidth
     THEN {FatalText(lit.width, HorizontalTotal, KnownWidth)} ELSE {})
    \cup (IF VerticalTotal >= KnownHeight
          THEN {FatalText(lit.height, VerticalTotal, KnownHeight)} ELSE {})

\* C6 as stated: with a known resolution, whenever the crops of a compile, one or
\* more of them, have a horizontal total of at least the width or a vertical
\* total of at least the height, the output is a single error text naming the
\* total and the dimension, with no argument in it.
C6_OversizeAborts ==
    (pc = "done" /\ ResolutionKnown /\ NumCrops(commands) >= 1 /\ FatalTexts # {}) =>
        output \in FatalTexts

\* C7 as stated: whenever `crop 0px from each` is among the commands of a
\* compile that assembles a command, the command holds cropdetect=24:16:0, the
\* resolution known or not.
C7_ZeroCropDetects ==
    (/\ pc = "done"
     /\ Contains(output, <<"-", "i", " ">>)
     /\ \E n \in 1..Len(commands) :
           /\ commands[n].type = "Crop"
           /\ commands[n].params.cropSize = <<"0", "p", "x">>
           /\ commands[n].params.side = lit.each) =>
        Contains(output, <<"c", "r", "o", "p", "d", "e", "t", "e", "c", "t", "=",
                           "2", "4", ":", "1", "6", ":", "0">>)

\* C8: the compiled command holds at most one -vf and at most one -af, and all
\* the video filter fragments are in the one -vf, joined with ",".
C8_OneCombinedFilter ==
    pc = "done" =>
        /\ Occurrences(output, <<"-", "v", "f", " ">>) <= 1
        /\ Occurrences(output, <<"-", "a", "f", " ">>) <= 1
        /\ videoFilters # <<>> =>
              Contains(output, <<"-", "v", "f", " ", "\"">> \o Join(videoFilters, <<",">>)
                               \o <<"\"">>)

\* C8 witness: a command with two video filter fragments has been assembled
C8_Witness ==
    /\ pc = "done"
    /\ Len(videoFilters) >= 2
    /\ Occurrences(output, <<"-", "v", "f", " ">>) = 1

\* The arguments after -i <file>, in ascending stage weight
StageMarkers ==
    << <<"-", "v", "f", " ">>, <<"-", "a", "f", " ">>, <<"-", "f", " ">>,
       <<"-", "c", "r", "f", " ">> >>

\* Every occurrence of a in s is before every occurrence of b
AllBefore(s, a, b) == \A p \in Positions(s, a), q \in Positions(s, b) : p < q

\* C9: in every assembled command the trim arguments -ss and -to come before
\* -i <file>, and the arguments after -i <file> come in ascending stage weight:
\* -vf, -af, -f, -crf.
C9_StageOrder ==
    (pc = "done" /\ Contains(output, <<"-", "i", " ">>)) =>
        /\ AllBefore(output, <<"-", "s", "s", " ">>, <<"-", "i", " ">>)
        /\ AllBefore(output, <<"-", "t", "o", " ">>, <<"-", "i", " ">>)
        /\ \A m \in 1..Len(StageMarkers) :
              AllBefore(output, <<"-", "i", " ">>, StageMarkers[m])
        /\ \A m, n \in 1..Len(StageMarkers) :
              m < n => AllBefore(output, StageMarkers[m], StageMarkers[n])

\* C9 witness: compress, scale and trim written in that order have been
\* assembled
C9_Witness ==
    /\ pc = "done"
    /\ Len(commands) = 3
    /\ commands[1].type = "Compress"
    /\ commands[2].type = "Scale"
    /\ commands[3].type = "Trim"
    /\ Contains(output, <<"-", "c", "r", "f", " ">>)
    /\ Contains(output, <<"-", "s", "s", " ">>)

\* C10 as stated: a parsed `remove_frames every N`, N from 2 to 30, puts
\* decimate=cycle=N in the combined video filter of the compiled command.
C10_DeduplicateDecimates ==
    pc = "done" =>
        \A n \in 1..Len(commands) :
            (commands[n].type = "Deduplicate" /\ commands[n].params.cycle \in 2..30) =>
                Contains(output, <<"-", "v", "f", " ">>)
                /\ Contains(output, <<"d", "e", "c", "i", "m", "a", "t", "e", "=", "c", "y", "c", "l", "e", "=">>
                                    \o Str(commands[n].params.cycle))

\* The Convert nodes and the Compress nodes of bucket video or audio
OutputNodes ==
    {n \in 1..Len(commands) :
        \/ commands[n].type = "Convert"
        \/ /\ commands[n].type = "Compress"
           /\ commands[n].params.bucket \in {lit.video, lit.audio}}

\* The entries of the assembled list that are output arguments
OutputArguments == {n \in 1..Len(processedCommands) : processedCommands[n].type = "output"}

\* C11 as stated: in every assembled command the output arguments are as many
\* as the Convert nodes and the Compress nodes of bucket video or audio, one
\* flag/value pair for each.
C11_OneOutputArgument ==
    (pc = "done" /\ Contains(output, <<"-", "i", " ">>)) =>
        Cardinality(OutputArguments) = Cardinality(OutputNodes)

----------------------------------------------------------------------------
(* Properties of the parser over whole texts                               *)

\* The text begins with a word that is neither a comment nor a command name
BeginsWithUnknownWord ==
    /\ words # <<>>
    /\ ~validateComment(words[1])
    /\ \A n \in 1..Len(commandPatterns) : commandPatterns[n].name # words[1]

\* C12 as stated: when the parse of a text whose first directive begins with a
\* word that is neither a comment nor a command name is over, the errors hold
\* `Unknown command: <word>` for that word.
C12_UnknownCommandReported ==
    (pc = "parsed" /\ BeginsWithUnknownWord) =>
        \E e \in 1..Len(errors) : errors[e] = <<"Unknown command", words[1]>>

\* The parse of the text by the loop agrees with parser(input)
ParserAgrees ==
    pc = "parsed" =>
        parser(input) = [errors |-> errors, commands |-> commands,
                         parsedCommands |-> parsedCommands]

\* The lines of a text, each with its line break
TextLines(text) ==
    [n \in 1..(Len(Split(text, "\n")) - 1) |-> Split(text, "\n")[n] \o <<"\n">>]

\* The text without its n-th line
WithoutLine(lines, n) ==
    Join(SubSeq(lines, 1, n - 1) \o SubSeq(lines, n + 1, Len(lines)), <<>>)

\* The malformed directives of the general programs, read by hand: a failed
\* validation (trim from 10 to 5), an incomplete command (remove_frames) and a
\* token mismatch (crop 10 from left)
MalformedLines == {Directives[3], Directives[7], Directives[11]}

\* Their well-formed directives
WellFormedLines ==
    {Directives[d] : d \in {2, 4, 5, 6, 8, 9, 10, 12, 13}}

\* Line n is malformed and every other line is a well-formed directive
OnlyMalformedLine(lines, n) ==
    /\ lines[n] \in MalformedLines
    /\ \A m \in 1..Len(lines) : m # n => lines[m] \in WellFormedLines

\* C13 as stated: when one line of the text holds a malformed directive and the
\* other lines hold well-formed ones, the nodes parser() returns are those it
\* returns for the text with the malformed line removed.
C13_MalformedLineRecovered ==
    pc = "parsed" =>
        \A n \in 1..Len(TextLines(input)) :
            OnlyMalformedLine(TextLines(input), n) =>
                commands = parser(WithoutLine(TextLines(input), n)).commands

\* The text with a line break in place of every ";"
SemicolonsAsLines(text) ==
    [p \in 1..Len(text) |-> IF text[p] = ";" THEN "\n" ELSE text[p]]

\* C14 as stated: for a text whose directives are separated by ";", one or
\* more of them, parser() returns the commands and the errors it returns for
\* the same text with a line break in place of every ";".
C14_SemicolonsAsLineBreaks ==
    (pc = "parsed" /\ Contains(input, <<";">>)) =>
        /\ commands = parser(SemicolonsAsLines(input)).commands
        /\ errors = parser(SemicolonsAsLines(input)).errors

\* The same for the texts that hold one ";"
SingleSemicolonAsLineBreak ==
    (pc = "parsed" /\ Occurrences(input, <<";">>) = 1) =>
        /\ commands = parser(SemicolonsAsLines(input)).commands
        /\ errors = parser(SemicolonsAsLines(input)).errors

\* The text from its first line break on, empty when it has none
FromLineBreak(s) ==
    IF FindFrom(s, 1, "\n") = 0 THEN <<>> ELSE SubSeq(s, FindFrom(s, 1, "\n"), Len(s))

\* The text without its comments: each "#" dropped with the rest of its line
RECURSIVE StripComments(_)
StripComments(s) ==
    IF s = <<>> THEN <<>>
    ELSE IF Head(s) = "#" THEN StripComments(FromLineBreak(s))
    ELSE <<Head(s)>> \o StripComments(Tail(s))

NonComments(cmds) == SelectSeq(cmds, LAMBDA cmd : cmd.type # "Comment")

\* C15 as stated: for a text with "#" comments whose directives all parse, the
\* non-Comment nodes and the errors parser() returns are those it returns for
\* the text without the comments.
C15_CommentsIgnored ==
    (/\ pc = "parsed"
     /\ Contains(input, <<"#">>)
     /\ parser(StripComments(input)).errors = <<>>) =>
        /\ NonComments(commands) = parser(StripComments(input)).commands
        /\ errors = <<>>

\* The same for the texts that end with a line break
CommentsIgnoredInWholeLines ==
    (/\ pc = "parsed"
     /\ Contains(input, <<"#">>)
     /\ input[Len(input)] = "\n"
     /\ parser(StripComments(input)).errors = <<>>) =>
        /\ NonComments(commands) = parser(StripComments(input)).commands
        /\ errors = <<>>

\* C17: for every directive parser() accepts, the source echo (the matched
\* token window joined with single spaces), tokenized again, is the window.
C17_EchoRoundTrip ==
    [][(ParserDispatch /\ lastResult'.success) =>
          MatchPattern(lastResult'.source, 1) = SubSeq(words, i + 1, i' + 1)]_vars

\* C17 witness: `add_text "Hello World" at center`, whose quoted token holds a
\* space, has been accepted and echoed
C17_Witness ==
    /\ pc = "parsed"
    /\ lastResult.success
    /\ lastResult.node.type = "TextOverlay"
    /\ Contains(lastResult.source, <<"o", " ", "W">>)
    /\ parsedCommands = <<lastResult.source>>

----------------------------------------------------------------------------
(* Properties of the order of the filters                                  *)

\* The filters of the list that the nodes of a type produce
FiltersOf(type) ==
    {f \in 1..Len(videoFilters) :
        CASE type \in {"Crop", "OptimizedCrop"} -> MatchAt(videoFilters[f], 1, lit.crop)
          [] type = "Scale" -> MatchAt(videoFilters[f], 1, lit.scale)
          [] type = "Fade" -> MatchAt(videoFilters[f], 1, lit.fade)
          [] type = "TextOverlay" -> MatchAt(videoFilters[f], 1, <<"d", "r", "a", "w">>)
          [] OTHER -> FALSE}

\* C19 as stated: in every assembled command, when a directive is written
\* before a directive of another kind and both kinds have filters in the
\* combined -vf, a filter of the first kind comes before a filter of the
\* second: the filters keep the relative order of their directives.
C19_FiltersInWrittenOrder ==
    pc = "done" =>
        \A m, n \in 1..Len(commands) :
            (/\ m < n
             /\ commands[m].type # commands[n].type
             /\ FiltersOf(commands[m].type) # {}
             /\ FiltersOf(commands[n].type) # {}) =>
                \E f \in FiltersOf(commands[m].type), g \in FiltersOf(commands[n].type) :
                    f < g

\* The same for the command lists with at most one Crop node
FiltersInWrittenOrderWithOneCrop ==
    (pc = "done" /\ NumCrops(commands) <= 1) =>
        \A m, n \in 1..Len(commands) :
            (/\ m < n
             /\ commands[m].type # commands[n].type
             /\ FiltersOf(commands[m].type) # {}
             /\ FiltersOf(commands[n].type) # {}) =>
                \E f \in FiltersOf(commands[m].type), g \in FiltersOf(commands[n].type) :
                    f < g

----------------------------------------------------------------------------
(* Properties of the keywords                                              *)

\* The text with the first word of each line in lower case
RECURSIVE LowerKeywords(_, _)
LowerKeywords(s, first) ==
    IF s = <<>> THEN <<>>
    ELSE IF Head(s) = "\n" THEN <<"\n">> \o LowerKeywords(Tail(s), TRUE)
    ELSE IF Head(s) \in WhiteSpace THEN <<Head(s)>> \o LowerKeywords(Tail(s), FALSE)
    ELSE <<IF first THEN LowerChar(Head(s)) ELSE Head(s)>> \o LowerKeywords(Tail(s), first)

\* C20 as stated: a text whose keywords are written in upper or mixed case
\* parses to the nodes of the same text with the keywords in lower case.
C20_KeywordsCaseInsensitive ==
    (pc = "parsed" /\ LowerKeywords(input, TRUE) # input) =>
        commands = parser(LowerKeywords(input, TRUE)).commands

----------------------------------------------------------------------------
(* Properties of repeated runs                                             *)

\* parser() followed by processAndReorderCommands, run again on the text and
\* the descriptor of the run before, gives the results of that run
SecondRunAgrees ==
    (/\ pc = "done"
     /\ previous.done
     /\ previous.input = input
     /\ previous.fileInfo = fileInfo) =>
        /\ commands = previous.commands
        /\ errors = previous.errors
        /\ parsedCommands = previous.parsedCommands
        /\ output = previous.output

\* C16 as stated: in both variants of the entry point a second run gives the
\* commands, errors, echoes and output of the first: the parser and the compiler
\* run again on the same text and descriptor, and the Parser page, which after
\* any render holds what one render gives from empty arrays.
C16_RunsArePure ==
    /\ SecondRunAgrees
    /\ page.renders > 0 =>
          [page EXCEPT !.renders = 0] =
              PageLoop(MatchPattern(code, 1), 0,
                       [commands |-> <<>>, errors |-> <<>>, parsedCommands |-> <<>>,
                        renders |-> 0])

----------------------------------------------------------------------------
(* Properties of the editor                                                *)

NumInputs(cmds) == Cardinality({n \in 1..Len(cmds) : cmds[n].type = "Input"})

\* C18 as stated: once the text of an input event is parsed, the commands of
\* the editor hold at most one Input node.
C18_AtMostOneInput ==
    (events > 0 /\ pc \in {"parsed", "done"}) => NumInputs(commands) <= 1

\* The same for the texts that came out of the conflict path of handleInput
AtMostOneInputAfterConflict ==
    (events > 0 /\ pc \in {"parsed", "done"} /\ Contains(input, commentLine)) =>
        NumInputs(commands) <= 1

----------------------------------------------------------------------------
(* Properties of the cursor                                                *)

\* The word at the cursor was checked by the block that ran before in the same
\* pass of the loop body: it is the token that did not validate, or the last
\* token of the window (an incomplete command checks no token)
ConsumedAtCursor ==
    /\ chain > 0
    /\ lastResult.lastIndex > 0
    /\ lastResult.error[1] # "Incomplete command"

\* C21 as stated: no block is entered with the cursor on a token that an
\* earlier directive has checked as part of its window.
C21_NoRescan == [][ParserDispatch => ~ConsumedAtCursor]_vars

----------------------------------------------------------------------------
(* Properties of the tokenizer                                             *)

\* The tokens that are not comment tokens
BareWords(ws) == SelectSeq(ws, LAMBDA w : w[1] # "#")

\* C22 as stated: every "#" starts a comment token that runs to the end of its
\* line, so the other tokens are those of the text without the "#" and the rest
\* of its line, and no token that begins with "#" is anything but a comment.
C22_CommentToEndOfLine ==
    (pc \in {"parsing", "parsed"} /\ Contains(input, <<"#">>)) =>
        /\ BareWords(words) =
              MatchPattern(StripComments(ReplaceFirst(input, <<";">>, <<" ">>)), 1)
        /\ \A n \in 1..Len(words) : words[n][1] = "#" => validateComment(words[n])

\* The same for the texts that end with a line break
CommentToEndOfLineInWholeLines ==
    (/\ pc \in {"parsing", "parsed"}
     /\ Contains(input, <<"#">>)
     /\ input[Len(input)] = "\n") =>
        /\ BareWords(words) =
              MatchPattern(StripComments(ReplaceFirst(input, <<";">>, <<" ">>)), 1)
        /\ \A n \in 1..Len(words) : words[n][1] = "#" => validateComment(words[n])

----------------------------------------------------------------------------
(* Properties of the loop of parser()                                      *)

\* C23: parser() terminates: a block never moves the cursor back (every
\* lastIndex is at least 0) and the end of the loop body moves it on by one, so
\* the loop body has run at most as many times as the cursor has advanced and at
\* most once per token.
C23_ParserTerminates ==
    /\ [][ParserDispatch => (lastResult'.lastIndex >= 0 /\ i' >= i)]_vars
    /\ [][ParserAdvance => i' = i + 1]_vars
    /\ [](pc \in {"parsing", "parsed"} => (passes <= i /\ passes <= Len(words)))

\* C23 witness: a parse is over after several passes in which blocks moved the
\* cursor, one of them for a directive that failed
C23_Witness ==
    /\ pc = "parsed"
    /\ passes >= 2
    /\ passes < Len(words)
    /\ Len(errors) > 0
    /\ Len(commands) > 0

\* The echoes of the nodes of a parse: the comment text for a Comment node
EchoesAligned ==
    /\ Len(commands) = Len(parsedCommands)
    /\ \A n \in 1..Len(commands) :
          commands[n].type = "Comment" => parsedCommands[n] = commands[n].params.content

\* C27: at every point of the parse and in its result commands and
\* parsedCommands have one length; a block that pushes a node pushes with it the
\* window it matched, joined by spaces, and a comment is pushed with its text.
C27_CommandsAndEchoesAligned ==
    /\ [](pc \in {"parsing", "parsed"} => EchoesAligned)
    /\ [][(ParserDispatch /\ lastResult'.success) =>
            /\ commands' = Append(commands, lastResult'.node)
            /\ parsedCommands' =
                  Append(parsedCommands, Join(SubSeq(words, i + 1, i' + 1), <<" ">>))]_vars
    /\ [][(ParserDispatch /\ ~lastResult'.success) =>
            UNCHANGED <<commands, parsedCommands>>]_vars

\* C27 witness: the result of a parse holds a comment, a node and their echoes,
\* and a directive of the text has failed
C27_Witness ==
    /\ pc = "parsed"
    /\ Len(commands) >= 2
    /\ Len(errors) >= 1
    /\ \E n \in 1..Len(commands) : commands[n].type = "Comment"
    /\ \E n \in 1..Len(commands) : commands[n].type # "Comment"

----------------------------------------------------------------------------
(* Properties of the crop rectangle                                        *)

\* The four parts of a filter text crop=w:h:x:y
CropParts(filter) == Split(SubSeq(filter, 6, Len(filter)), ":")

\* The rectangle w:h:x:y of four parts written in digits lies inside the frame
\* of width W and height H
InsideFrame(parts, W, H) ==
    /\ Len(parts) = 4
    /\ \A n \in 1..4 : parts[n] # <<>> /\ AllDigits(parts[n])
    /\ DigitsValue(parts[1]) > 0 /\ DigitsValue(parts[2]) > 0
    /\ DigitsValue(parts[3]) + DigitsValue(parts[1]) <= W
    /\ DigitsValue(parts[4]) + DigitsValue(parts[2]) <= H

IsCropFilter(filter) == MatchAt(filter, 1, <<"c", "r", "o", "p", "=">>)

\* C25: with a known resolution every crop filter of the compile, built from a
\* Crop node or from an OptimizedCrop node, is a rectangle inside the frame.
C25_CropInsideFrame ==
    (pc \in {"compiling", "done"} /\ HasResolution(fileInfo)) =>
        \A n \in 1..Len(videoFilters) :
            IsCropFilter(videoFilters[n]) =>
                InsideFrame(CropParts(videoFilters[n]),
                            Dimensions(fileInfo)[1], Dimensions(fileInfo)[2])

\* C25 witness: at 80x60 a compile is over with the filter of a single crop
\* that leaves a width of 20, and another with the filter of merged crops
C25_Witness ==
    /\ pc = "done"
    /\ fileInfo.resolution = <<"8", "0", "x", "6", "0">>
    /\ \E n \in 1..Len(videoFilters) :
          /\ IsCropFilter(videoFilters[n])
          /\ CropParts(videoFilters[n])[1] = <<"2", "0">>
          /\ CropParts(videoFilters[n])[3] = <<"3", "0">>
    /\ NumCrops(commands) = 2

\* What does hold: the same when every crop size of the program starts with a
\* digit (the pattern /[0-9]+px/ is not anchored and lets `-10px` through)
CropInsideFrameOfUnsignedSizes ==
    (\A n \in 1..Len(commands) :
        commands[n].type = "Crop" => commands[n].params.cropSize[1] \in Digits)
        => C25_CropInsideFrame

----------------------------------------------------------------------------
(* Crops one at a time                                                     *)

\* One crop of n pixels applied to the frame rect = <<w, h, x, y>> left by the
\* crops before it
ApplyCrop(rect, side, n) ==
    CASE side = lit.left -> <<rect[1] - n, rect[2], rect[3] + n, rect[4]>>
      [] side = lit.right -> <<rect[1] - n, rect[2], rect[3], rect[4]>>
      [] side = lit.top -> <<rect[1], rect[2] - n, rect[3], rect[4] + n>>
      [] side = lit.bottom -> <<rect[1], rect[2] - n, rect[3], rect[4]>>
      [] side = lit.width -> <<rect[1] - 2 * n, rect[2], rect[3] + n, rect[4]>>
      [] side = lit.height -> <<rect[1], rect[2] - 2 * n, rect[3], rect[4] + n>>
      [] side = lit.each ->
            <<rect[1] - 2 * n, rect[2] - 2 * n, rect[3] + n, rect[4] + n>>

\* The Crop nodes of cmds applied in turn, from the first
RECURSIVE ApplyCrops(_, _)
ApplyCrops(rect, cmds) ==
    IF cmds = <<>> THEN rect
    ELSE ApplyCrops(
            IF Head(cmds).type = "Crop"
            THEN ApplyCrop(rect, Head(cmds).params.side, Pixels(Head(cmds).params.cropSize))
            ELSE rect,
            Tail(cmds))

Reversed(s) == [n \in 1..Len(s) |-> s[Len(s) + 1 - n]]

PositiveCrops(cmds) ==
    \A n \in 1..Len(cmds) : cmds[n].type = "Crop" => Pixels(cmds[n].params.cropSize) > 0

RectParts(rect) == <<Str(rect[1]), Str(rect[2]), Str(rect[3]), Str(rect[4])>>

\* The state holds the filter of the merged crops of a program of two or more
\* crops of positive sizes, at a known resolution
MergedFilterBuilt ==
    /\ pc \in {"compiling", "done"}
    /\ HasResolution(fileInfo)
    /\ NumCrops(commands) >= 2
    /\ PositiveCrops(commands)
    /\ k >= 1

\* C26: the rectangle of the filter of the merged crops is the rectangle left
\* by applying the crops one at a time to the frame, in the order of the
\* program and in the reverse order.
C26_MergedAsOneAtATime ==
    MergedFilterBuilt =>
        /\ videoFilters # <<>>
        /\ IsCropFilter(videoFilters[1])
        /\ CropParts(videoFilters[1]) =
              RectParts(ApplyCrops(<<Dimensions(fileInfo)[1], Dimensions(fileInfo)[2], 0, 0>>,
                                   commands))
        /\ CropParts(videoFilters[1]) =
              RectParts(ApplyCrops(<<Dimensions(fileInfo)[1], Dimensions(fileInfo)[2], 0, 0>>,
                                   Reversed(commands)))

\* C26 witness: at 80x60 `crop 10px from each` and `crop 30px from left` in
\* either order are merged into crop=30:40:40:10
C26_Witness ==
    /\ MergedFilterBuilt
    /\ pc = "done"
    /\ videoFilters[1] = <<"c", "r", "o", "p", "=", "3", "0", ":", "4", "0", ":", "4", "0", ":", "1", "0">>
    /\ commands[1].type = "Crop" /\ commands[1].params.side = lit.left

----------------------------------------------------------------------------
(* Properties of the tokenizer of the editor                               *)

\* The values of the tokens up to the n-th, one after the other
RECURSIVE ValuesUpTo(_, _)
ValuesUpTo(toks, n) ==
    IF n = 0 THEN <<>> ELSE ValuesUpTo(toks, n - 1) \o toks[n].value

\* The line breaks of text
LineBreaks(text) == Cardinality({p \in 1..Len(text) : text[p] = "\n"})

\* C24: every token carries the 1-based number of the line on which it
\* starts, that is 1 + the line breaks before its first character, and the
\* offset of its own first character.
C24_TokenLineAndOffset ==
    \A n \in 1..Len(tokens) :
        /\ tokens[n].line = 1 + LineBreaks(ValuesUpTo(tokens, n - 1))
        /\ tokens[n].startPosition = Len(ValuesUpTo(tokens, n - 1))

\* What the tokenizer does record: startPosition is never past the token's
\* first character and line never past the line on which the token ends
LineAndOffsetAtMost ==
    \A n \in 1..Len(tokens) :
        /\ tokens[n].line <= 1 + LineBreaks(ValuesUpTo(tokens, n))
        /\ tokens[n].startPosition <= Len(ValuesUpTo(tokens, n - 1)) + 1

\* C28: the values of the tokens of a text, one after the other, are the
\* text, and every token holds at least one character (one token is pushed by
\* each turn of the loop).
C28_TokenizerLossless ==
    [][SyntaxHighlighter =>
          /\ ValuesUpTo(tokens', Len(tokens')) = input
          /\ \A n \in 1..Len(tokens') : Len(tokens'[n].value) >= 1]_vars

\* C28 witness: the tokens of a text of a word, a line break, a comment and
\* an unterminated string of one character
C28_Witness ==
    /\ Len(tokens) >= 3
    /\ tokens[1].type = "OPERATOR"
    /\ \E n \in 1..Len(tokens) : tokens[n].type = "WHITESPACE" /\ Contains(tokens[n].value, <<"\n">>)
    /\ tokens[Len(tokens)].type = "STRING" /\ tokens[Len(tokens)].value = <<"\"">>

----------------------------------------------------------------------------
(* Properties of loadFFmpeg                                                *)

\* The load of instance n completed successfully: the call that made it
\* resolved
Loaded(n) == n \in 1..Len(calls) /\ calls[n].made /\ calls[n].at = "resolved"

\* C30: a call of loadFFmpeg that resolved returned an instance whose load
\* completed successfully.
C30_OnlyLoadedInstances ==
    \A c \in 1..Len(calls) : calls[c].at = "resolved" => Loaded(calls[c].value)

\* What does hold: a call that resolved returned the instance of its module,
\* and each module makes one instance at most
OneInstancePerModule ==
    /\ \A c \in 1..Len(calls) :
          calls[c].at = "resolved" => calls[c].value = ffmpeg[calls[c].module]
    /\ \A c, d \in 1..Len(calls) :
          (calls[c].made /\ calls[d].made /\ calls[c].module = calls[d].module) => c = d

----------------------------------------------------------------------------
(* Properties of the file selection                                        *)

\* C29: when the selection completes and puts a text in the editor, that text
\* is the text the editor held at that moment with the placeholder replaced
\* by the file name, so that what was typed while probeFile was pending is
\* still there.
C29_SelectionKeepsEdits ==
    [][(ProbeSettled /\ input' # input) =>
          input' = performReplacement(input, pending[1].type, pending[1].file)]_vars

\* What does hold: the text put in the editor is the text of the moment the
\* file was chosen with the placeholder replaced
SelectionReplacesCodeAtCall ==
    [][(ProbeSettled /\ input' # input) =>
          input' = performReplacement(pending[1].code, pending[1].type,
                                      pending[1].file)]_vars

\* A selection is waiting for probeFile and the editor holds another text than
\* when the file was chosen
EditedWhilePending == pending # <<>> /\ pending[1].code # input /\ pc \in {"parsed", "done"}
====
